---- MODULE Spec2Model ----
(***************************************************************************)
(* A model of the semantic analysis of ic10lsp: the symbol table builder   *)
(* (update_definitions), the instruction type checker (check_types), the   *)
(* other passes of run_diagnostics, the Union matching algebra, the static *)
(* catalog and vocabulary tables, and the document handlers of the server. *)
(*                                                                         *)
(* A document is modelled by the syntax tree the external parser produces  *)
(* for it: a sequence of line nodes, one per row, each an instruction      *)
(* (operation and operands), a label, a comment or an error node.  Every   *)
(* token occupies one column, tokens are separated by one column: token k  *)
(* of a row (k = 0 is the operation or the label identifier) spans columns *)
(* 2k..2k+1.                                                               *)
(*                                                                         *)
(* Spec follows one did_open through the passes of run_diagnostics, over a *)
(* large set of documents.  Server runs several did_open / did_change      *)
(* handlers at once, over a small set of documents: a handler is suspended *)
(* only where it awaits the lock of the files map, so its steps are the    *)
(* sections it runs under that lock.  Limits adds configuration changes    *)
(* over documents of instructions and comments, Labels opens documents     *)
(* with a label on any line and hovers over it, Documents runs handlers of *)
(* two documents at once, and Locked runs the handlers with the two        *)
(* read/write locks of the Backend and their queues of waiting handlers.   *)
(* Requests adds the request handlers between the document handlers,       *)
(* Configured runs did_change_configuration over settings of any JSON type *)
(* between did_open handlers of two documents, UnionOperations applies the *)
(* operations of Union to slices in any order and repetition, Erroneous    *)
(* opens documents with error nodes, and Unsupported opens documents with  *)
(* a mnemonic that has no signature.                                       *)
(***************************************************************************)
EXTENDS Integers, Sequences, FiniteSets, TLC

VARIABLES
  files,        \* Backend.files: uri -> FileData
  config,       \* Backend.config
  uri,          \* the document the handler in progress was called for
  diagnostics,  \* the diagnostics vector of the run_diagnostics in progress
  pc,           \* position of the handler in progress
  tasks,        \* the handlers the server runs at once: slot -> handler state
  published,    \* uri -> the diagnostics the client was sent last for it
  opened,       \* the documents the client has open
  response,     \* the last request and its result, or the inputs of a Union operation
  locks         \* the RwLocks of Backend.files and Backend.config

vars ==
  <<files, config, uri, diagnostics, pc, tasks, published, opened, response, locks>>

-----------------------------------------------------------------------------
(* Bounds of the explored inputs *)

\* longest document made of definition lines only
MaxDefs == 3
\* largest number of operands of the type-checked instruction
MaxOperands == 4
\* largest number of content changes of one did_change event
MaxChanges == 2

\* the largest number of lines of a document of the overlength checks
MaxRows == 2

\* the largest zero-based line index of a label
MaxLabelRow == 257

\* the largest number of elements of a Union that is matched
MaxUnion == 2

-----------------------------------------------------------------------------
(* instructions.rs: DataType, Union, the catalog and the vocabularies *)

DataType ==
  {"Number", "Register", "Device", "LogicType", "SlotLogicType", "Name", "BatchMode", "ReagentMode"}

REGISTER == <<"Register">>
DEVICE == <<"Device">>
VALUE == <<"Register", "Number">>
LOGIC_TYPE == <<"LogicType">>
SLOT_LOGIC_TYPE == <<"SlotLogicType">>
BATCH_MODE == <<"BatchMode", "Number", "Register">>
REAGENT_MODE == <<"ReagentMode", "Number", "Register">>

\* The instruction signature table: mnemonic -> sequence of parameter Unions.
INSTRUCTIONS ==
  ("alias" :> <<<<"Name">>, <<"Register", "Device">>>>) @@
  ("label" :> <<<<"Name">>, <<"Register", "Device">>>>) @@
  ("define" :> <<<<"Name">>, <<"Number">>>>) @@
  ("bdns" :> <<DEVICE, VALUE>>) @@
  ("bdnsal" :> <<DEVICE, VALUE>>) @@
  ("bdse" :> <<DEVICE, VALUE>>) @@
  ("bdseal" :> <<DEVICE, VALUE>>) @@
  ("brdns" :> <<DEVICE, VALUE>>) @@
  ("brdse" :> <<DEVICE, VALUE>>) @@
  ("l" :> <<REGISTER, DEVICE, LOGIC_TYPE>>) @@
  ("lb" :> <<REGISTER, VALUE, LOGIC_TYPE, BATCH_MODE>>) @@
  ("lr" :> <<REGISTER, DEVICE, REAGENT_MODE, VALUE>>) @@
  ("ls" :> <<REGISTER, DEVICE, VALUE, SLOT_LOGIC_TYPE>>) @@
  ("s" :> <<DEVICE, LOGIC_TYPE, VALUE>>) @@
  ("sb" :> <<VALUE, LOGIC_TYPE, VALUE>>) @@
  ("bap" :> <<VALUE, VALUE, VALUE, VALUE>>) @@
  ("bapal" :> <<VALUE, VALUE, VALUE, VALUE>>) @@
  ("bapz" :> <<VALUE, VALUE, VALUE>>) @@
  ("bapzal" :> <<VALUE, VALUE, VALUE>>) @@
  ("beq" :> <<VALUE, VALUE, VALUE>>) @@
  ("beqal" :> <<VALUE, VALUE, VALUE>>) @@
  ("beqz" :> <<VALUE, VALUE>>) @@
  ("beqzal" :> <<VALUE, VALUE>>) @@
  ("bge" :> <<VALUE, VALUE, VALUE>>) @@
  ("bgeal" :> <<VALUE, VALUE, VALUE>>) @@
  ("bgez" :> <<VALUE, VALUE>>) @@
  ("bgezal" :> <<VALUE, VALUE>>) @@
  ("bgt" :> <<VALUE, VALUE, VALUE>>) @@
  ("bgtal" :> <<VALUE, VALUE, VALUE>>) @@
  ("bgtz" :> <<VALUE, VALUE>>) @@
  ("bgtzal" :> <<VALUE, VALUE>>) @@
  ("ble" :> <<VALUE, VALUE, VALUE>>) @@
  ("bleal" :> <<VALUE, VALUE, VALUE>>) @@
  ("blez" :> <<VALUE, VALUE>>) @@
  ("blezal" :> <<VALUE, VALUE>>) @@
  ("blt" :> <<VALUE, VALUE, VALUE>>) @@
  ("bltal" :> <<VALUE, VALUE, VALUE>>) @@
  ("bltz" :> <<VALUE, VALUE>>) @@
  ("bltzal" :> <<VALUE, VALUE>>) @@
  ("bna" :> <<VALUE, VALUE, VALUE, VALUE>>) @@
  ("bnaal" :> <<VALUE, VALUE, VALUE, VALUE>>) @@
  ("bnaz" :> <<VALUE, VALUE, VALUE>>) @@
  ("bnazal" :> <<VALUE, VALUE, VALUE>>) @@
  ("bne" :> <<VALUE, VALUE, VALUE>>) @@
  ("bneal" :> <<VALUE, VALUE, VALUE>>) @@
  ("bnez" :> <<VALUE, VALUE>>) @@
  ("bnezal" :> <<VALUE, VALUE>>) @@
  ("brap" :> <<VALUE, VALUE, VALUE, VALUE>>) @@
  ("brapz" :> <<VALUE, VALUE, VALUE>>) @@
  ("brnaz" :> <<VALUE, VALUE, VALUE>>) @@
  ("breq" :> <<VALUE, VALUE, VALUE>>) @@
  ("breqz" :> <<VALUE, VALUE>>) @@
  ("brge" :> <<VALUE, VALUE, VALUE>>) @@
  ("brgez" :> <<VALUE, VALUE>>) @@
  ("brgt" :> <<VALUE, VALUE, VALUE>>) @@
  ("brgtz" :> <<VALUE, VALUE>>) @@
  ("brle" :> <<VALUE, VALUE, VALUE>>) @@
  ("brlez" :> <<VALUE, VALUE>>) @@
  ("brlt" :> <<VALUE, VALUE, VALUE>>) @@
  ("brltz" :> <<VALUE, VALUE>>) @@
  ("brna" :> <<VALUE, VALUE, VALUE, VALUE>>) @@
  ("brne" :> <<VALUE, VALUE, VALUE>>) @@
  ("brnez" :> <<VALUE, VALUE>>) @@
  ("j" :> <<VALUE>>) @@
  ("jal" :> <<VALUE>>) @@
  ("jr" :> <<VALUE>>) @@
  ("sap" :> <<REGISTER, VALUE, VALUE, VALUE>>) @@
  ("sapz" :> <<REGISTER, VALUE, VALUE>>) @@
  ("sdns" :> <<REGISTER, DEVICE>>) @@
  ("sdse" :> <<REGISTER, DEVICE>>) @@
  ("select" :> <<REGISTER, VALUE, VALUE, VALUE>>) @@
  ("seq" :> <<REGISTER, VALUE, VALUE>>) @@
  ("seqz" :> <<REGISTER, VALUE>>) @@
  ("sge" :> <<REGISTER, VALUE, VALUE>>) @@
  ("sgez" :> <<REGISTER, VALUE>>) @@
  ("sgt" :> <<REGISTER, VALUE, VALUE>>) @@
  ("sgtz" :> <<REGISTER, VALUE>>) @@
  ("sle" :> <<REGISTER, VALUE, VALUE>>) @@
  ("slez" :> <<REGISTER, VALUE>>) @@
  ("slt" :> <<REGISTER, VALUE, VALUE>>) @@
  ("sltz" :> <<REGISTER, VALUE>>) @@
  ("sna" :> <<REGISTER, VALUE, VALUE, VALUE>>) @@
  ("snaz" :> <<REGISTER, VALUE, VALUE>>) @@
  ("sne" :> <<REGISTER, VALUE, VALUE>>) @@
  ("snez" :> <<REGISTER, VALUE>>) @@
  ("abs" :> <<REGISTER, VALUE>>) @@
  ("acos" :> <<REGISTER, VALUE>>) @@
  ("add" :> <<REGISTER, VALUE, VALUE>>) @@
  ("asin" :> <<REGISTER, VALUE>>) @@
  ("atan" :> <<REGISTER, VALUE>>) @@
  ("atan2" :> <<REGISTER, VALUE, VALUE>>) @@
  ("ceil" :> <<REGISTER, VALUE>>) @@
  ("cos" :> <<REGISTER, VALUE>>) @@
  ("div" :> <<REGISTER, VALUE, VALUE>>) @@
  ("exp" :> <<REGISTER, VALUE>>) @@
  ("floor" :> <<REGISTER, VALUE>>) @@
  ("log" :> <<REGISTER, VALUE>>) @@
  ("max" :> <<REGISTER, VALUE, VALUE>>) @@
  ("min" :> <<REGISTER, VALUE, VALUE>>) @@
  ("mod" :> <<REGISTER, VALUE, VALUE>>) @@
  ("mul" :> <<REGISTER, VALUE, VALUE>>) @@
  ("rand" :> <<REGISTER>>) @@
  ("round" :> <<REGISTER, VALUE>>) @@
  ("sin" :> <<REGISTER, VALUE>>) @@
  ("sqrt" :> <<REGISTER, VALUE>>) @@
  ("sub" :> <<REGISTER, VALUE, VALUE>>) @@
  ("tan" :> <<REGISTER, VALUE>>) @@
  ("trunc" :> <<REGISTER, VALUE>>) @@
  ("and" :> <<REGISTER, VALUE, VALUE>>) @@
  ("nor" :> <<REGISTER, VALUE, VALUE>>) @@
  ("or" :> <<REGISTER, VALUE, VALUE>>) @@
  ("xor" :> <<REGISTER, VALUE, VALUE>>) @@
  ("peek" :> <<REGISTER>>) @@
  ("pop" :> <<REGISTER>>) @@
  ("push" :> <<VALUE>>) @@
  ("hcf" :> <<>>) @@
  ("move" :> <<REGISTER, VALUE>>) @@
  ("sleep" :> <<VALUE>>) @@
  ("yield" :> <<>>) @@
  ("bnan" :> <<VALUE, VALUE>>) @@
  ("brnan" :> <<VALUE, VALUE>>) @@
  ("lbn" :> <<REGISTER, VALUE, VALUE, LOGIC_TYPE, BATCH_MODE>>) @@
  ("lbns" :> <<REGISTER, VALUE, VALUE, VALUE, SLOT_LOGIC_TYPE, BATCH_MODE>>) @@
  ("lbs" :> <<REGISTER, VALUE, VALUE, SLOT_LOGIC_TYPE, BATCH_MODE>>) @@
  ("not" :> <<REGISTER, VALUE>>) @@
  ("sbn" :> <<VALUE, VALUE, LOGIC_TYPE, VALUE>>) @@
  ("sbs" :> <<VALUE, VALUE, SLOT_LOGIC_TYPE, REGISTER>>) @@
  ("sla" :> <<REGISTER, VALUE, VALUE>>) @@
  ("sll" :> <<REGISTER, VALUE, VALUE>>) @@
  ("sra" :> <<REGISTER, VALUE, VALUE>>) @@
  ("srl" :> <<REGISTER, VALUE, VALUE>>) @@
  ("snan" :> <<REGISTER, VALUE>>) @@
  ("snanz" :> <<REGISTER, VALUE>>) @@
  ("ss" :> <<DEVICE, VALUE, SLOT_LOGIC_TYPE, REGISTER>>)

\* The logic type vocabulary.
LOGIC_TYPES ==
  {
    "Power", "Open", "Mode", "Error", "Lock", "Pressure", "Temperature",
    "PressureExternal", "PressureInternal", "Activate", "Charge", "Setting", "Reagents",
    "RatioOxygen", "RatioCarbonDioxide", "RatioNitrogen", "RatioPollutant",
    "RatioVolatiles", "RatioWater", "Horizontal", "Vertical", "SolarAngle", "Maximum",
    "Ratio", "PowerPotential", "PowerActual", "Quantity", "On", "ImportQuantity",
    "ImportSlotOccupant", "ExportQuantity", "ExportSlotOccupant", "RequiredPower",
    "HorizontalRatio", "VerticalRatio", "PowerRequired", "Idle", "Color", "ElevatorSpeed",
    "ElevatorLevel", "RecipeHash", "ExportSlotHash", "ImportSlotHash", "PlantHealth1",
    "PlantHealth2", "PlantHealth3", "PlantHealth4", "PlantGrowth1", "PlantGrowth2",
    "PlantGrowth3", "PlantGrowth4", "PlantEfficiency1", "PlantEfficiency2",
    "PlantEfficiency3", "PlantEfficiency4", "PlantHash1", "PlantHash2", "PlantHash3",
    "PlantHash4", "RequestHash", "CompletionRatio", "ClearMemory", "ExportCount",
    "ImportCount", "PowerGeneration", "TotalMoles", "Volume", "Plant", "Harvest", "Output",
    "PressureSetting", "TemperatureSetting", "TemperatureExternal", "Filtration",
    "AirRelease", "PositionX", "PositionY", "PositionZ", "VelocityMagnitude",
    "VelocityRelativeX", "VelocityRelativeY", "VelocityRelativeZ", "RatioNitrousOxide",
    "PrefabHash", "ForceWrite", "SignalStrength", "SignalID", "TargetX", "TargetY",
    "TargetZ", "SettingInput", "SettingOutput", "CurrentResearchPodType",
    "ManualResearchRequiredPod", "MineablesInVicinity", "MineablesInQueue",
    "NextWeatherEventTime", "Combustion", "Fuel", "ReturnFuelCost", "CollectableGoods",
    "Time", "Bpm", "EnvironmentEfficiency", "WorkingGasEfficiency", "PressureInput",
    "TemperatureInput", "RatioOxygenInput", "RatioCarbonDioxideInput",
    "RatioNitrogenInput", "RatioPollutantInput", "RatioVolatilesInput", "RatioWaterInput",
    "RatioNitrousOxideInput", "TotalMolesInput", "PressureInput2", "TemperatureInput2",
    "RatioOxygenInput2", "RatioCarbonDioxideInput2", "RatioNitrogenInput2",
    "RatioPollutantInput2", "RatioVolatilesInput2", "RatioWaterInput2",
    "RatioNitrousOxideInput2", "TotalMolesInput2", "PressureOutput", "TemperatureOutput",
    "RatioOxygenOutput", "RatioCarbonDioxideOutput", "RatioNitrogenOutput",
    "RatioPollutantOutput", "RatioVolatilesOutput", "RatioWaterOutput",
    "RatioNitrousOxideOutput", "TotalMolesOutput", "PressureOutput2", "TemperatureOutput2",
    "RatioOxygenOutput2", "RatioCarbonDioxideOutput2", "RatioNitrogenOutput2",
    "RatioPollutantOutput2", "RatioVolatilesOutput2", "RatioWaterOutput2",
    "RatioNitrousOxideOutput2", "TotalMolesOutput2", "CombustionInput", "CombustionInput2",
    "CombustionOutput", "CombustionOutput2", "OperationalTemperatureEfficiency",
    "TemperatureDifferentialEfficiency", "PressureEfficiency", "CombustionLimiter",
    "Throttle", "Rpm", "Stress", "InterrogationProgress", "TargetPadIndex", "SizeX",
    "SizeY", "SizeZ", "MinimumWattsToContact", "WattsReachingContact"
  }

\* The slot logic type vocabulary.
SLOT_LOGIC_TYPES ==
  {
    "Occupied", "OccupantHash", "Quantity", "Damage", "Efficiency", "Health", "Growth",
    "Pressure", "Temperature", "Charge", "ChargeRatio", "Class", "PressureWaste",
    "PressureAir", "MaxQuantity", "Mature", "PrefabHash", "Seeding"
  }

\* The batch mode vocabulary.
BATCH_MODES ==
  {
    "Average", "Sum", "Minimum", "Maximum"
  }

\* The reagent mode vocabulary.
REAGENT_MODES ==
  {
    "Contents", "Required", "Recipe"
  }

\* Keys of the instruction documentation table (the documentation text is not modelled).
INSTRUCTION_DOCS ==
  {
    "l", "lb", "s", "sb", "ls", "lr", "alias", "define", "move", "add", "sub", "sdse",
    "sdns", "slt", "sgt", "sle", "sge", "seq", "sne", "sap", "sna", "sltz", "sgtz", "slez",
    "sgez", "seqz", "snez", "sapz", "snaz", "and", "or", "xor", "nor", "mul", "div", "mod",
    "j", "bdse", "bdns", "blt", "bgt", "ble", "bge", "beq", "bne", "bap", "bna", "bltz",
    "bgez", "blez", "bgtz", "beqz", "bnez", "bapz", "bnaz", "jr", "brdse", "brdns", "brlt",
    "brgt", "brle", "brge", "breq", "brne", "brap", "brna", "brltz", "brgez", "brlez",
    "brgtz", "breqz", "brnez", "brapz", "brnaz", "jal", "bdseal", "bdnsal", "bltal",
    "bgtal", "bleal", "bgeal", "beqal", "bneal", "bapal", "bnaal", "bltzal", "bgezal",
    "blezal", "bgtzal", "beqzal", "bnezal", "bapzal", "bnazal", "sqrt", "round", "trunc",
    "ceil", "floor", "max", "min", "abs", "log", "exp", "rand", "yield", "label", "peek",
    "push", "pop", "hcf", "select", "sleep", "sin", "cos", "tan", "asin", "acos", "atan",
    "atan2"
  }

\* Keys of the logic type documentation table.
LOGIC_TYPE_DOCS ==
  {
    "Power", "Open", "Mode", "Error", "Lock", "Pressure", "Temperature", "PressureInput",
    "TemperatureInput", "PressureInput2", "TemperatureInput2", "PressureOutput",
    "TargetPadIndex", "InterrogationProgress", "SizeX", "SizeY", "SizeZ",
    "MinimumWattsToContact", "WattsReachingContact", "TemperatureOutput",
    "PressureOutput2", "TemperatureOutput2", "PressureExternal", "PressureInternal",
    "Activate", "Charge", "Setting", "Reagents", "RatioOxygen", "RatioCarbonDioxide",
    "RatioNitrogen", "RatioPollutant", "RatioVolatiles", "RatioWater", "RatioNitrousOxide",
    "Combustion", "RatioOxygenInput", "RatioCarbonDioxideInput", "RatioNitrogenInput",
    "RatioPollutantInput", "RatioVolatilesInput", "RatioWaterInput",
    "RatioNitrousOxideInput", "CombustionInput", "RatioOxygenInput2",
    "RatioCarbonDioxideInput2", "RatioNitrogenInput2", "RatioPollutantInput2",
    "RatioVolatilesInput2", "RatioWaterInput2", "RatioNitrousOxideInput2",
    "CombustionInput2", "RatioOxygenOutput", "RatioCarbonDioxideOutput",
    "RatioNitrogenOutput", "RatioPollutantOutput", "RatioVolatilesOutput",
    "RatioWaterOutput", "RatioNitrousOxideOutput", "CombustionOutput",
    "RatioOxygenOutput2", "RatioCarbonDioxideOutput2", "RatioNitrogenOutput2",
    "RatioPollutantOutput2", "RatioVolatilesOutput2", "RatioWaterOutput2",
    "RatioNitrousOxideOutput2", "CombustionOutput2", "Horizontal", "Vertical",
    "SolarAngle", "Maximum", "Ratio", "PowerPotential", "PowerActual", "Quantity", "On",
    "ImportQuantity", "ImportSlotOccupant", "ExportQuantity", "ExportSlotOccupant",
    "RequiredPower", "HorizontalRatio", "VerticalRatio", "PowerRequired", "Idle", "Color",
    "ElevatorSpeed", "ElevatorLevel", "RecipeHash", "ExportSlotHash", "ImportSlotHash",
    "PlantHealth1", "PlantHealth2", "PlantHealth3", "PlantHealth4", "PlantGrowth1",
    "PlantGrowth2", "PlantGrowth3", "PlantGrowth4", "PlantEfficiency1", "PlantEfficiency2",
    "PlantEfficiency3", "PlantEfficiency4", "PlantHash1", "PlantHash2", "PlantHash3",
    "PlantHash4", "CompletionRatio", "ClearMemory", "ExportCount", "ImportCount",
    "PowerGeneration", "TotalMoles", "TotalMolesInput", "TotalMolesInput2",
    "TotalMolesOutput", "TotalMolesOutput2", "Volume", "Plant", "Harvest", "Output",
    "PressureSetting", "TemperatureSetting", "TemperatureExternal", "Filtration",
    "AirRelease", "PositionX", "PositionY", "PositionZ", "VelocityMagnitude",
    "VelocityRelativeX", "VelocityRelativeY", "VelocityRelativeZ", "PrefabHash",
    "ForceWrite", "SignalStrength", "SignalID", "OperationalTemperatureEfficiency",
    "TemperatureDifferentialEfficiency", "CombustionLimiter", "Throttle", "Rpm", "Stress",
    "PressureEfficiency", "ReturnFuelCost", "Fuel", "CollectableGoods", "RequestHash",
    "ManualResearchRequiredPod", "Bpm", "SettingInput", "SettingOutput",
    "EnvironmentEfficiency", "NextWeatherEventTime", "TargetX", "TargetY", "TargetZ",
    "Time", "WorkingGasEfficiency", "CurrentResearchPodType", "MineablesInVicinity",
    "MineablesInQueue"
  }

\* Keys of the slot logic type documentation table.
SLOT_TYPE_DOCS ==
  {
    "Occupied", "OccupantHash", "Quantity", "Damage", "Efficiency", "Mature", "Seeding",
    "Health", "Growth", "Pressure", "Temperature", "Charge", "ChargeRatio", "Class",
    "PressureWaste", "PressureAir", "MaxQuantity", "PrefabHash"
  }

\* Keys of the batch mode documentation table.
BATCH_MODE_DOCS ==
  {
    "Average", "Sum", "Minimum", "Maximum"
  }
\* BATCH_MODE_LOOKUP: numeric code -> batch mode name
BATCH_MODE_LOOKUP ==
  (0 :> "Average") @@ (1 :> "Sum") @@ (2 :> "Minimum") @@ (3 :> "Maximum")

\* REAGENT_MODE_LOOKUP: numeric code -> reagent mode name
REAGENT_MODE_LOOKUP ==
  (0 :> "Contents") @@ (1 :> "Required") @@ (2 :> "Recipe")

\* Union::match_type: some element of the union equals typ
match_type(self, typ) ==
  \E i \in 1..Len(self) : self[i] = typ

\* match_union as it would be if only the first element of self were compared
match_union_first_only(self, types) ==
  Len(self) >= 1 /\ \E j \in 1..Len(types) : self[1] = types[j]

\* Union::match_union: some element of self equals some element of types
match_union(self, types) ==
  \E i \in 1..Len(self) : \E j \in 1..Len(types) : self[i] = types[j]

\* Union::intersection: the elements of self that other contains, in self's order
intersection(self, other) ==
  SelectSeq(self, LAMBDA x : \E j \in 1..Len(other) : other[j] = x)

\* the documentation table hover and completion consult for a vocabulary;
\* every DataType other than these three has none
VocabularyDocs(typ) ==
  CASE typ = "LogicType" -> LOGIC_TYPE_DOCS
    [] typ = "SlotLogicType" -> SLOT_TYPE_DOCS
    [] typ = "BatchMode" -> BATCH_MODE_DOCS
    [] OTHER -> {}

\* the name set of a vocabulary
VocabularyNames(typ) ==
  CASE typ = "LogicType" -> LOGIC_TYPES
    [] typ = "SlotLogicType" -> SLOT_LOGIC_TYPES
    [] typ = "BatchMode" -> BATCH_MODES
    [] typ = "ReagentMode" -> REAGENT_MODES
    [] OTHER -> {}

-----------------------------------------------------------------------------
(* Syntax tree nodes and their ranges *)

\* an operand node: the kind of its only child and the child's text
Operand(kind, text) == [kind |-> kind, text |-> text]

\* an instruction node with an operation child and operand children
Instruction(operation, operands) ==
  [kind |-> "instruction", operation |-> <<operation>>, operands |-> operands]

\* a label node: an identifier followed by a colon
Label(name) ==
  [kind |-> "label", operation |-> <<>>, operands |-> <<Operand("identifier", name)>>]

Position(line, character) == [line |-> line, character |-> character]

Range(start, end) == [start |-> start, end |-> end]

\* range of the operation node of the instruction on a row
OperationRange(row) == Range(Position(row, 0), Position(row, 1))

\* range of the p-th operand of the instruction on a row
OperandRange(row, p) == Range(Position(row, 2 * p), Position(row, 2 * p + 1))

\* range of the whole instruction node on a row
InstructionRange(row, node) ==
  Range(Position(row, 0), Position(row, 2 * Len(node.operands) + 1))

\* range of the identifier of the label on a row
LabelNameRange(row) == Range(Position(row, 0), Position(row, 1))

\* the characters of the register and device tokens, of the mnemonics and of the
\* prefixes the code tests for
Chars ==
  ("r0" :> <<"r", "0">>) @@ ("r1" :> <<"r", "1">>) @@ ("ra" :> <<"r", "a">>) @@
  ("sp" :> <<"s", "p">>) @@ ("d0" :> <<"d", "0">>) @@ ("d1" :> <<"d", "1">>) @@
  ("db" :> <<"d", "b">>) @@ ("rr0" :> <<"r", "r", "0">>) @@ ("dr0" :> <<"d", "r", "0">>) @@
  ("d0:0" :> <<"d", "0", ":", "0">>) @@ ("r" :> <<"r">>) @@ ("d" :> <<"d">>) @@ ("b" :> <<"b">>) @@ ("br" :> <<"b", "r">>) @@
  ("lb" :> <<"l", "b">>) @@ ("bdnvl" :> <<"b", "d", "n", "v", "l">>) @@
  ("bdnvs" :> <<"b", "d", "n", "v", "s">>) @@ ("define" :> <<"d", "e", "f", "i", "n", "e">>) @@
  ("alias" :> <<"a", "l", "i", "a", "s">>) @@ ("label" :> <<"l", "a", "b", "e", "l">>) @@
  ("bdns" :> <<"b", "d", "n", "s">>) @@ ("bdnsal" :> <<"b", "d", "n", "s", "a", "l">>) @@
  ("bdse" :> <<"b", "d", "s", "e">>) @@ ("bdseal" :> <<"b", "d", "s", "e", "a", "l">>) @@
  ("brdns" :> <<"b", "r", "d", "n", "s">>) @@ ("brdse" :> <<"b", "r", "d", "s", "e">>) @@
  ("l" :> <<"l">>) @@ ("lr" :> <<"l", "r">>) @@ ("ls" :> <<"l", "s">>) @@ ("s" :> <<"s">>) @@
  ("sb" :> <<"s", "b">>) @@ ("bap" :> <<"b", "a", "p">>) @@
  ("bapal" :> <<"b", "a", "p", "a", "l">>) @@ ("bapz" :> <<"b", "a", "p", "z">>) @@
  ("bapzal" :> <<"b", "a", "p", "z", "a", "l">>) @@ ("beq" :> <<"b", "e", "q">>) @@
  ("beqal" :> <<"b", "e", "q", "a", "l">>) @@ ("beqz" :> <<"b", "e", "q", "z">>) @@
  ("beqzal" :> <<"b", "e", "q", "z", "a", "l">>) @@ ("bge" :> <<"b", "g", "e">>) @@
  ("bgeal" :> <<"b", "g", "e", "a", "l">>) @@ ("bgez" :> <<"b", "g", "e", "z">>) @@
  ("bgezal" :> <<"b", "g", "e", "z", "a", "l">>) @@ ("bgt" :> <<"b", "g", "t">>) @@
  ("bgtal" :> <<"b", "g", "t", "a", "l">>) @@ ("bgtz" :> <<"b", "g", "t", "z">>) @@
  ("bgtzal" :> <<"b", "g", "t", "z", "a", "l">>) @@ ("ble" :> <<"b", "l", "e">>) @@
  ("bleal" :> <<"b", "l", "e", "a", "l">>) @@ ("blez" :> <<"b", "l", "e", "z">>) @@
  ("blezal" :> <<"b", "l", "e", "z", "a", "l">>) @@ ("blt" :> <<"b", "l", "t">>) @@
  ("bltal" :> <<"b", "l", "t", "a", "l">>) @@ ("bltz" :> <<"b", "l", "t", "z">>) @@
  ("bltzal" :> <<"b", "l", "t", "z", "a", "l">>) @@ ("bna" :> <<"b", "n", "a">>) @@
  ("bnaal" :> <<"b", "n", "a", "a", "l">>) @@ ("bnaz" :> <<"b", "n", "a", "z">>) @@
  ("bnazal" :> <<"b", "n", "a", "z", "a", "l">>) @@ ("bne" :> <<"b", "n", "e">>) @@
  ("bneal" :> <<"b", "n", "e", "a", "l">>) @@ ("bnez" :> <<"b", "n", "e", "z">>) @@
  ("bnezal" :> <<"b", "n", "e", "z", "a", "l">>) @@ ("brap" :> <<"b", "r", "a", "p">>) @@
  ("brapz" :> <<"b", "r", "a", "p", "z">>) @@ ("brnaz" :> <<"b", "r", "n", "a", "z">>) @@
  ("breq" :> <<"b", "r", "e", "q">>) @@ ("breqz" :> <<"b", "r", "e", "q", "z">>) @@
  ("brge" :> <<"b", "r", "g", "e">>) @@ ("brgez" :> <<"b", "r", "g", "e", "z">>) @@
  ("brgt" :> <<"b", "r", "g", "t">>) @@ ("brgtz" :> <<"b", "r", "g", "t", "z">>) @@
  ("brle" :> <<"b", "r", "l", "e">>) @@ ("brlez" :> <<"b", "r", "l", "e", "z">>) @@
  ("brlt" :> <<"b", "r", "l", "t">>) @@ ("brltz" :> <<"b", "r", "l", "t", "z">>) @@
  ("brna" :> <<"b", "r", "n", "a">>) @@ ("brne" :> <<"b", "r", "n", "e">>) @@
  ("brnez" :> <<"b", "r", "n", "e", "z">>) @@ ("j" :> <<"j">>) @@
  ("jal" :> <<"j", "a", "l">>) @@ ("jr" :> <<"j", "r">>) @@ ("sap" :> <<"s", "a", "p">>) @@
  ("sapz" :> <<"s", "a", "p", "z">>) @@ ("sdns" :> <<"s", "d", "n", "s">>) @@
  ("sdse" :> <<"s", "d", "s", "e">>) @@ ("select" :> <<"s", "e", "l", "e", "c", "t">>) @@
  ("seq" :> <<"s", "e", "q">>) @@ ("seqz" :> <<"s", "e", "q", "z">>) @@
  ("sge" :> <<"s", "g", "e">>) @@ ("sgez" :> <<"s", "g", "e", "z">>) @@
  ("sgt" :> <<"s", "g", "t">>) @@ ("sgtz" :> <<"s", "g", "t", "z">>) @@
  ("sle" :> <<"s", "l", "e">>) @@ ("slez" :> <<"s", "l", "e", "z">>) @@
  ("slt" :> <<"s", "l", "t">>) @@ ("sltz" :> <<"s", "l", "t", "z">>) @@
  ("sna" :> <<"s", "n", "a">>) @@ ("snaz" :> <<"s", "n", "a", "z">>) @@
  ("sne" :> <<"s", "n", "e">>) @@ ("snez" :> <<"s", "n", "e", "z">>) @@
  ("abs" :> <<"a", "b", "s">>) @@ ("acos" :> <<"a", "c", "o", "s">>) @@
  ("add" :> <<"a", "d", "d">>) @@ ("asin" :> <<"a", "s", "i", "n">>) @@
  ("atan" :> <<"a", "t", "a", "n">>) @@ ("atan2" :> <<"a", "t", "a", "n", "2">>) @@
  ("ceil" :> <<"c", "e", "i", "l">>) @@ ("cos" :> <<"c", "o", "s">>) @@
  ("div" :> <<"d", "i", "v">>) @@ ("exp" :> <<"e", "x", "p">>) @@
  ("floor" :> <<"f", "l", "o", "o", "r">>) @@ ("log" :> <<"l", "o", "g">>) @@
  ("max" :> <<"m", "a", "x">>) @@ ("min" :> <<"m", "i", "n">>) @@
  ("mod" :> <<"m", "o", "d">>) @@ ("mul" :> <<"m", "u", "l">>) @@
  ("rand" :> <<"r", "a", "n", "d">>) @@ ("round" :> <<"r", "o", "u", "n", "d">>) @@
  ("sin" :> <<"s", "i", "n">>) @@ ("sqrt" :> <<"s", "q", "r", "t">>) @@
  ("sub" :> <<"s", "u", "b">>) @@ ("tan" :> <<"t", "a", "n">>) @@
  ("trunc" :> <<"t", "r", "u", "n", "c">>) @@ ("and" :> <<"a", "n", "d">>) @@
  ("nor" :> <<"n", "o", "r">>) @@ ("or" :> <<"o", "r">>) @@ ("xor" :> <<"x", "o", "r">>) @@
  ("peek" :> <<"p", "e", "e", "k">>) @@ ("pop" :> <<"p", "o", "p">>) @@
  ("push" :> <<"p", "u", "s", "h">>) @@ ("hcf" :> <<"h", "c", "f">>) @@
  ("move" :> <<"m", "o", "v", "e">>) @@ ("sleep" :> <<"s", "l", "e", "e", "p">>) @@
  ("yield" :> <<"y", "i", "e", "l", "d">>) @@ ("bnan" :> <<"b", "n", "a", "n">>) @@
  ("brnan" :> <<"b", "r", "n", "a", "n">>) @@ ("lbn" :> <<"l", "b", "n">>) @@
  ("lbns" :> <<"l", "b", "n", "s">>) @@ ("lbs" :> <<"l", "b", "s">>) @@
  ("not" :> <<"n", "o", "t">>) @@ ("sbn" :> <<"s", "b", "n">>) @@
  ("sbs" :> <<"s", "b", "s">>) @@ ("sla" :> <<"s", "l", "a">>) @@
  ("sll" :> <<"s", "l", "l">>) @@ ("sra" :> <<"s", "r", "a">>) @@
  ("srl" :> <<"s", "r", "l">>) @@ ("snan" :> <<"s", "n", "a", "n">>) @@
  ("snanz" :> <<"s", "n", "a", "n", "z">>) @@ ("ss" :> <<"s", "s">>)

\* str::starts_with
starts_with(text, prefix) ==
  /\ Len(Chars[text]) >= Len(Chars[prefix])
  /\ SubSeq(Chars[text], 1, Len(Chars[prefix])) = Chars[prefix]

-----------------------------------------------------------------------------
(* main.rs: per-document data *)

\* DefinitionData::new
DefinitionData(range, value) == [range |-> range, value |-> value]

\* the conversion as it would be if it tested for the prefix of a register
AliasValue_from_register_prefix(value) ==
  IF starts_with(value, "r")
    THEN [tag |-> "Register", text |-> value]
    ELSE [tag |-> "Device", text |-> value]

\* impl From<String> for AliasValue
AliasValue_from(value) ==
  IF starts_with(value, "d")
    THEN [tag |-> "Device", text |-> value]
    ELSE [tag |-> "Register", text |-> value]

\* TypeData::default
TypeData_default == [defines |-> <<>>, aliases |-> <<>>, labels |-> <<>>]

\* HashMap::insert
Insert(map, key, value) ==
  [k \in (DOMAIN map) \cup {key} |-> IF k = key THEN value ELSE map[k]]

\* get_range as it would be if the labels map were not consulted
get_range_without_labels(self, name) ==
  IF name \in DOMAIN self.defines THEN <<self.defines[name].range>>
  ELSE IF name \in DOMAIN self.aliases THEN <<self.aliases[name].range>>
  ELSE <<>>

\* TypeData::get_range: Some(range) as <<range>>, None as <<>>
get_range(self, name) ==
  IF name \in DOMAIN self.defines THEN <<self.defines[name].range>>
  ELSE IF name \in DOMAIN self.aliases THEN <<self.aliases[name].range>>
  ELSE IF name \in DOMAIN self.labels THEN <<self.labels[name].range>>
  ELSE <<>>

\* Diagnostic::new and the Diagnostic struct literals
Diagnostic(range, severity, code, text, args, related_information, data) ==
  [range |-> range, severity |-> severity, code |-> code,
   message |-> [text |-> text, args |-> args],
   related_information |-> related_information, data |-> data]

-----------------------------------------------------------------------------
(* main.rs: Backend::update_content *)

\* Parser::parse when it yields a tree: Some(tree) as <<tree>>
parse(text) == <<text>>

\* update_content as it would be if it stored the document in a map of its own
update_content_alone(fs, u, text, tree) ==
  (u :> [document_data |-> [url |-> u, tree |-> tree, content |-> text],
         type_data |-> IF u \in DOMAIN fs THEN fs[u].type_data ELSE TypeData_default])

\* Backend::update_content: insert a fresh FileData, or replace tree and content;
\* tree is what Parser::parse returned for the text
update_content(fs, u, text, tree) ==
  IF u \notin DOMAIN fs
    THEN Insert(fs, u, [document_data |-> [url |-> u, tree |-> tree, content |-> text],
                        type_data |-> TypeData_default])
    ELSE [fs EXCEPT ![u].document_data.tree = tree,
                    ![u].document_data.content = text]

-----------------------------------------------------------------------------
(* main.rs: Backend::update_definitions *)

\* the "Duplicate definition" diagnostic with its related location
DuplicateDefinition(url, range, previous_range) ==
  Diagnostic(range, "ERROR", <<>>, "Duplicate definition", <<>>,
             <<[location |-> [uri |-> url, range |-> previous_range],
                message |-> "Previously defined here"]>>,
             <<>>)

\* the lookup as it would be if only the defines map were consulted
previous_range_defines_only(type_data, name) ==
  IF name \in DOMAIN type_data.defines THEN <<type_data.defines[name].range>>
  ELSE <<>>

\* the lookup of an earlier binding made for a define or alias capture
previous_range(type_data, name) ==
  IF name \in DOMAIN type_data.defines THEN <<type_data.defines[name].range>>
  ELSE IF name \in DOMAIN type_data.aliases THEN <<type_data.aliases[name].range>>
  ELSE <<>>

\* one capture of the @define / @alias patterns (define, alias and label instructions);
\* acc is the pair of the type data and the diagnostics built so far
DefineOrAliasCapture(acc, url, row, node) ==
  IF Len(node.operands) = 0 THEN acc
  ELSE
    LET name == node.operands[1].text
        name_range == OperandRange(row, 1)
        previous == previous_range(acc.type_data, name)
        value_node == node.operands[Len(node.operands)]
        value == value_node.text
    IN IF previous # <<>>
         THEN [acc EXCEPT !.diagnostics =
                 Append(@, DuplicateDefinition(url, name_range, previous[1]))]
       ELSE IF node.operation = <<"define">>
         THEN IF value_node.kind # "number" THEN acc
              ELSE [acc EXCEPT !.type_data.defines =
                      Insert(@, name, DefinitionData(name_range, value))]
       ELSE IF value_node.kind # "register" /\ value_node.kind # "device_spec" THEN acc
       ELSE [acc EXCEPT !.type_data.aliases =
               Insert(@, name, DefinitionData(name_range, AliasValue_from(value)))]

\* one capture of the @label pattern (the identifier of a label node)
LabelCapture(acc, url, row, node) ==
  LET name == node.operands[1].text
      previous == get_range(acc.type_data, name)
  IN IF previous # <<>>
       THEN [acc EXCEPT !.diagnostics =
               Append(@, DuplicateDefinition(url, LabelNameRange(row), previous[1]))]
       ELSE [acc EXCEPT !.type_data.labels =
               Insert(@, name, DefinitionData(LabelNameRange(row), row % 256))]

\* the body of the capture loop for line i
DefinitionCapture(tree, url, i, acc) ==
  IF tree[i].kind = "instruction"
     /\ tree[i].operation \in {<<"define">>, <<"alias">>, <<"label">>}
    THEN DefineOrAliasCapture(acc, url, i - 1, tree[i])
  ELSE IF tree[i].kind = "label" THEN LabelCapture(acc, url, i - 1, tree[i])
  ELSE acc

\* the capture loop, in document order, over the lines lo..hi: the first half of
\* the lines, then, from the type data and the diagnostics of the first half, the
\* second half
RECURSIVE DefinitionCapturesIn(_, _, _, _, _)
DefinitionCapturesIn(tree, url, lo, hi, acc) ==
  IF lo > hi THEN acc
  ELSE IF lo = hi THEN DefinitionCapture(tree, url, lo, acc)
  ELSE
    LET first == DefinitionCapturesIn(tree, url, lo, (lo + hi) \div 2, acc)
    IN IF DOMAIN first = {"type_data", "diagnostics"}
         THEN DefinitionCapturesIn(tree, url, (lo + hi) \div 2 + 1, hi, first)
         ELSE first

\* the capture loop, in document order, from line i on
DefinitionCaptures(tree, url, i, acc) ==
  DefinitionCapturesIn(tree, url, i, Len(tree), acc)

\* update_definitions as it would be if the maps were cleared before the tree is
\* looked at
update_definitions_clear_first(fs, u, diags) ==
  IF u \notin DOMAIN fs THEN [files |-> fs, diagnostics |-> diags]
  ELSE
    LET document == fs[u].document_data
    IN IF document.tree = <<>>
         THEN [files |-> [fs EXCEPT ![u].type_data = TypeData_default],
               diagnostics |-> diags]
       ELSE
         LET acc == DefinitionCaptures(document.tree[1], document.url, 1,
                      [type_data |-> TypeData_default, diagnostics |-> diags])
         IN [files |-> [fs EXCEPT ![u].type_data = acc.type_data],
             diagnostics |-> acc.diagnostics]

\* update_definitions as it would be if the maps were not cleared: the bindings
\* of the tree are added to the bindings the maps hold
update_definitions_without_clear(fs, u, diags) ==
  IF u \notin DOMAIN fs THEN [files |-> fs, diagnostics |-> diags]
  ELSE
    LET document == fs[u].document_data
    IN IF document.tree = <<>> THEN [files |-> fs, diagnostics |-> diags]
       ELSE
         LET acc == DefinitionCaptures(document.tree[1], document.url, 1,
                      [type_data |-> fs[u].type_data, diagnostics |-> diags])
         IN [files |-> [fs EXCEPT ![u].type_data = acc.type_data],
             diagnostics |-> acc.diagnostics]

\* Backend::update_definitions: the new files map and diagnostics vector
update_definitions(fs, u, diags) ==
  IF u \notin DOMAIN fs THEN [files |-> fs, diagnostics |-> diags]
  ELSE
    LET document == fs[u].document_data
    IN IF document.tree = <<>> THEN [files |-> fs, diagnostics |-> diags]
       ELSE
         LET acc == DefinitionCaptures(document.tree[1], document.url, 1,
                      [type_data |-> TypeData_default, diagnostics |-> diags])
         IN [files |-> [fs EXCEPT ![u].type_data = acc.type_data],
             diagnostics |-> acc.diagnostics]

-----------------------------------------------------------------------------
(* main.rs: Backend::check_types *)

\* the types as they would be if the first vocabulary that contains the name won
logictype_types_first_match(ident) ==
  IF ident \in LOGIC_TYPES THEN <<"LogicType">>
  ELSE IF ident \in SLOT_LOGIC_TYPES THEN <<"SlotLogicType">>
  ELSE IF ident \in BATCH_MODES THEN <<"BatchMode">>
  ELSE IF ident \in REAGENT_MODES THEN <<"ReagentMode">>
  ELSE <<>>

\* the types of a vocabulary name: one entry per vocabulary that contains it
logictype_types(ident) ==
  (IF ident \in LOGIC_TYPES THEN <<"LogicType">> ELSE <<>>)
  \o (IF ident \in SLOT_LOGIC_TYPES THEN <<"SlotLogicType">> ELSE <<>>)
  \o (IF ident \in BATCH_MODES THEN <<"BatchMode">> ELSE <<>>)
  \o (IF ident \in REAGENT_MODES THEN <<"ReagentMode">> ELSE <<>>)

\* the classification of an identifier operand: Some(union), or None when unknown
identifier_type(type_data, parameter, ident) ==
  IF match_type(parameter, "Name") THEN <<(<<"Name">>)>>
  ELSE IF ident \in DOMAIN type_data.defines \/ ident \in DOMAIN type_data.labels
    THEN <<(<<"Number">>)>>
  ELSE IF ident \in DOMAIN type_data.aliases
    THEN IF type_data.aliases[ident].value.tag = "Device"
           THEN <<(<<"Device">>)>>
           ELSE <<(<<"Register">>)>>
  ELSE <<>>

\* the diagnostics one operand paired with a parameter adds
OperandDiagnostics(type_data, parameter, row, p, operand) ==
  LET range == OperandRange(row, p)
      mismatch(typ) ==
        IF ~match_union(parameter, typ)
          THEN <<Diagnostic(range, "ERROR", <<>>, "Type mismatch. Found {}, expected {}",
                            <<typ, parameter>>, <<>>, <<>>)>>
          ELSE <<>>
  IN CASE operand.kind = "register" -> mismatch(<<"Register">>)
       [] operand.kind = "device_spec" -> mismatch(<<"Device">>)
       [] operand.kind = "number" -> mismatch(<<"Number">>)
       [] operand.kind = "logictype" -> mismatch(logictype_types(operand.text))
       [] operand.kind = "identifier" ->
            LET typ == identifier_type(type_data, parameter, operand.text)
            IN IF typ = <<>>
                 THEN <<Diagnostic(range, "ERROR", <<>>, "Unknown identifier",
                                   <<>>, <<>>, <<>>)>>
                 ELSE mismatch(typ[1])
       [] OTHER -> <<>>

\* the operand loop of one instruction, from operand p on
RECURSIVE OperandLoop(_, _, _, _, _, _)
OperandLoop(type_data, signature, row, node, p, diags) ==
  IF p > Len(node.operands) THEN diags
  ELSE IF p > Len(signature) THEN OperandLoop(type_data, signature, row, node, p + 1, diags)
  ELSE OperandLoop(type_data, signature, row, node, p + 1,
         diags \o OperandDiagnostics(type_data, signature[p], row, p, node.operands[p]))

\* the arity diagnostics as they would be without the continue that follows
\* the superfluous-argument error
ArityDiagnostics_no_continue(signature, row, node) ==
  LET argument_count == Len(node.operands)
  IN (IF argument_count > Len(signature)
        THEN <<Diagnostic(
                 Range(OperandRange(row, Len(signature) + 1).start,
                       InstructionRange(row, node).end),
                 "ERROR", <<>>, "Superfluous argument{}. '{}' only requires {} arguments.",
                 <<IF argument_count - Len(signature) > 1 THEN "s" ELSE "",
                   node.operation[1], Len(signature)>>, <<>>, <<>>)>>
        ELSE <<>>)
     \o (IF argument_count # Len(signature)
          THEN <<Diagnostic(InstructionRange(row, node), "ERROR", <<>>,
                            "Invalid number of arguments", <<>>, <<>>, <<>>)>>
          ELSE <<>>)

\* the arity diagnostics as they would be if a missing argument were reported
\* at the operation instead of the instruction
ArityDiagnostics_operation_range(signature, row, node) ==
  LET argument_count == Len(node.operands)
  IN IF argument_count > Len(signature)
       THEN <<Diagnostic(
                Range(OperandRange(row, Len(signature) + 1).start,
                      InstructionRange(row, node).end),
                "ERROR", <<>>, "Superfluous argument{}. '{}' only requires {} arguments.",
                <<IF argument_count - Len(signature) > 1 THEN "s" ELSE "",
                  node.operation[1], Len(signature)>>, <<>>, <<>>)>>
     ELSE IF argument_count # Len(signature)
       THEN <<Diagnostic(OperationRange(row), "ERROR", <<>>,
                         "Invalid number of arguments", <<>>, <<>>, <<>>)>>
     ELSE <<>>

\* the arity diagnostics that follow the operand loop
ArityDiagnostics(signature, row, node) ==
  LET argument_count == Len(node.operands)
  IN IF argument_count > Len(signature)
       THEN <<Diagnostic(
                Range(OperandRange(row, Len(signature) + 1).start,
                      InstructionRange(row, node).end),
                "ERROR", <<>>, "Superfluous argument{}. '{}' only requires {} arguments.",
                <<IF argument_count - Len(signature) > 1 THEN "s" ELSE "",
                  node.operation[1], Len(signature)>>, <<>>, <<>>)>>
     ELSE IF argument_count # Len(signature)
       THEN <<Diagnostic(InstructionRange(row, node), "ERROR", <<>>,
                         "Invalid number of arguments", <<>>, <<>>, <<>>)>>
     ELSE <<>>

\* the body of the loop as it would be if a mnemonic without a signature were
\* checked against an empty signature after its diagnostic
CheckInstruction_empty_signature(type_data, row, node, diags) ==
  IF node.operation = <<>> THEN diags
  ELSE
    LET operation == node.operation[1]
        signature == IF operation \in DOMAIN INSTRUCTIONS THEN INSTRUCTIONS[operation]
                     ELSE <<>>
        unsupported ==
          IF operation \notin DOMAIN INSTRUCTIONS
            THEN Append(diags, Diagnostic(OperationRange(row), "INFORMATION", <<>>,
                                          "Unsupported instruction", <<>>, <<>>, <<>>))
            ELSE diags
    IN OperandLoop(type_data, signature, row, node, 1, unsupported)
       \o ArityDiagnostics(signature, row, node)

\* the body of the instruction loop for one captured instruction
CheckInstruction(type_data, row, node, diags) ==
  IF node.operation = <<>> THEN diags
  ELSE
    LET operation == node.operation[1]
    IN IF operation \notin DOMAIN INSTRUCTIONS
         THEN IF operation # "define" /\ operation # "alias" /\ operation # "label"
                THEN Append(diags, Diagnostic(OperationRange(row), "INFORMATION", <<>>,
                                              "Unsupported instruction", <<>>, <<>>, <<>>))
                ELSE diags
         ELSE
           LET signature == INSTRUCTIONS[operation]
           IN OperandLoop(type_data, signature, row, node, 1, diags)
              \o ArityDiagnostics(signature, row, node)

\* the instruction loop, in document order, over the lines lo..hi: the first
\* half of the lines, then, from the diagnostics of the first half, the second half
RECURSIVE InstructionCapturesIn(_, _, _, _, _)
InstructionCapturesIn(type_data, tree, lo, hi, diags) ==
  IF lo > hi THEN diags
  ELSE IF lo = hi
    THEN IF tree[lo].kind = "instruction"
           THEN CheckInstruction(type_data, lo - 1, tree[lo], diags)
           ELSE diags
  ELSE
    LET first == InstructionCapturesIn(type_data, tree, lo, (lo + hi) \div 2, diags)
    IN IF Len(first) >= 0
         THEN InstructionCapturesIn(type_data, tree, (lo + hi) \div 2 + 1, hi, first)
         ELSE first

\* the instruction loop as it would be if it ended at the first instruction
\* that a diagnostic is raised for
RECURSIVE InstructionCaptures_until_diagnostic(_, _, _, _)
InstructionCaptures_until_diagnostic(type_data, tree, i, diags) ==
  IF i > Len(tree) THEN diags
  ELSE IF tree[i].kind # "instruction"
    THEN InstructionCaptures_until_diagnostic(type_data, tree, i + 1, diags)
  ELSE IF CheckInstruction(type_data, i - 1, tree[i], diags) # diags
    THEN CheckInstruction(type_data, i - 1, tree[i], diags)
  ELSE InstructionCaptures_until_diagnostic(type_data, tree, i + 1, diags)

\* the instruction loop, in document order, from line i on
InstructionCaptures(type_data, tree, i, diags) ==
  InstructionCapturesIn(type_data, tree, i, Len(tree), diags)

\* Backend::check_types: the diagnostics vector after the pass
check_types(fs, u, diags) ==
  IF u \notin DOMAIN fs THEN diags
  ELSE IF fs[u].document_data.tree = <<>> THEN diags
  ELSE InstructionCaptures(fs[u].type_data, fs[u].document_data.tree[1], 1, diags)

-----------------------------------------------------------------------------
(* main.rs: Backend::run_diagnostics, the passes other than the type check *)

\* impl Default for Configuration
Configuration_default ==
  [max_lines |-> 128, max_columns |-> 90,
   warn_overline_comment |-> TRUE, warn_overcolumn_comment |-> FALSE]

\* serde_json::Value, the kinds of value a settings payload holds; an object has
\* the keys overline_comment and overcolumn_comment, where an absent key is <<>>
\* and a key with a value is <<value>>
Value(type, number, text, bool, overline_comment, overcolumn_comment) ==
  [type |-> type, number |-> number, text |-> text, bool |-> bool,
   overline_comment |-> overline_comment, overcolumn_comment |-> overcolumn_comment]

Number(n) == Value("number", <<n>>, <<>>, <<>>, <<>>, <<>>)

String(text) == Value("string", <<>>, <<text>>, <<>>, <<>>, <<>>)

Bool(b) == Value("bool", <<>>, <<>>, <<b>>, <<>>, <<>>)

Object(overline_comment, overcolumn_comment) ==
  Value("object", <<>>, <<>>, <<>>, overline_comment, overcolumn_comment)

\* Value::get(key).and_then(Value::as_u64): the number, if the key holds a number
\* that is an integer and not negative
as_u64(value) ==
  IF value # <<>> /\ value[1].type = "number" /\ value[1].number[1] >= 0
    THEN value[1].number ELSE <<>>

\* Value::get(key).and_then(Value::as_bool)
as_bool(value) ==
  IF value # <<>> /\ value[1].type = "bool" THEN value[1].bool ELSE <<>>

\* Value::get(key).and_then(Value::as_object)
as_object(value) ==
  IF value # <<>> /\ value[1].type = "object" THEN value ELSE <<>>

\* Option::unwrap_or
unwrap_or(option, default) == IF option = <<>> THEN default ELSE option[1]

\* the block as it would be if a key without a value of its type gave the field
\* its default
did_change_configuration_or_default(cfg, settings) ==
  LET warnings == as_object(settings.warnings)
      default == [max_lines |-> 128, max_columns |-> 90,
                  warn_overline_comment |-> TRUE, warn_overcolumn_comment |-> FALSE]
  IN [max_lines |-> unwrap_or(as_u64(settings.max_lines), default.max_lines),
      max_columns |-> unwrap_or(as_u64(settings.max_columns), default.max_columns),
      warn_overline_comment |->
        IF warnings = <<>> THEN cfg.warn_overline_comment
        ELSE unwrap_or(as_bool(warnings[1].overline_comment), default.warn_overline_comment),
      warn_overcolumn_comment |->
        IF warnings = <<>> THEN cfg.warn_overcolumn_comment
        ELSE unwrap_or(as_bool(warnings[1].overcolumn_comment),
                       default.warn_overcolumn_comment)]

\* did_change_configuration, the block that holds the write guard of config: a
\* key of the settings that is absent, <<>>, or holds a value of another type
\* leaves the field as it is
did_change_configuration(cfg, settings) ==
  LET warnings == as_object(settings.warnings)
      warned ==
        IF warnings = <<>> THEN cfg
        ELSE [cfg EXCEPT
                !.warn_overline_comment =
                  unwrap_or(as_bool(warnings[1].overline_comment), @),
                !.warn_overcolumn_comment =
                  unwrap_or(as_bool(warnings[1].overcolumn_comment), @)]
  IN [warned EXCEPT
        !.max_lines = unwrap_or(as_u64(settings.max_lines), @),
        !.max_columns = unwrap_or(as_u64(settings.max_columns), @)]

LINT_ABSOLUTE_JUMP == "L001"

LINT_NUMBER_BATCH_MODE == "L002"

LINT_NUMBER_REAGENT_MODE == "L003"

\* a comment node that fills a row
Comment(words) == [kind |-> "comment", operation |-> <<>>, operands |-> words]

\* an error node that fills a row
Error(tokens) == [kind |-> "ERROR", operation |-> <<>>, operands |-> tokens]

\* an instruction node whose first child is an invalid_instruction, not an operation
InvalidInstruction(operands) ==
  [kind |-> "instruction", operation |-> <<>>, operands |-> operands]

\* Node::range of a line node on a row
NodeRange(row, node) ==
  Range(Position(row, 0), Position(row, 2 * Len(node.operands) + 1))

\* Node::end_position of a line node on a row
end_position(row, node) == Position(row, 2 * Len(node.operands) + 1)

\* the concatenation of a sequence of sequences: that of its first half, then
\* that of its second half
RECURSIVE Flatten(_)
Flatten(ss) ==
  IF ss = <<>> THEN <<>>
  ELSE IF Len(ss) = 1 THEN ss[1]
  ELSE Flatten(SubSeq(ss, 1, Len(ss) \div 2))
       \o Flatten(SubSeq(ss, Len(ss) \div 2 + 1, Len(ss)))

\* the captures of the (ERROR) query: one Syntax error for each error node
syntax_errors(tree, diags) ==
  diags \o Flatten([i \in 1..Len(tree) |->
    IF tree[i].kind = "ERROR"
      THEN <<Diagnostic(NodeRange(i - 1, tree[i]), "ERROR", <<>>,
                        "Syntax error", <<>>, <<>>, <<>>)>>
      ELSE <<>>])

\* the captures of the (instruction (invalid_instruction)) query
invalid_instructions(tree, diags) ==
  diags \o Flatten([i \in 1..Len(tree) |->
    IF tree[i].kind = "instruction" /\ tree[i].operation = <<>>
      THEN <<Diagnostic(OperationRange(i - 1), "ERROR", <<>>,
                        "Invalid instruction", <<>>, <<>>, <<>>)>>
      ELSE <<>>])

\* the diagnostic of a node that ends past max_columns
PastColumn(cfg, row, node, severity, text) ==
  IF end_position(row, node).character > cfg.max_columns
    THEN <<Diagnostic(Range(Position(row, cfg.max_columns), end_position(row, node)),
                      severity, <<>>, text, <<cfg.max_columns>>, <<>>, <<>>)>>
    ELSE <<>>

\* the diagnostic of a node inside the point range that starts at row max_lines
PastLine(cfg, row, node, severity, text) ==
  IF row >= cfg.max_lines
    THEN <<Diagnostic(NodeRange(row, node), severity, <<>>, text,
                      <<cfg.max_lines>>, <<>>, <<>>)>>
    ELSE <<>>

\* the overlength checks as they would be if one toggle governed both checks of
\* the comments
overlength_one_toggle(tree, cfg, diags) ==
  diags
  \o Flatten([i \in 1..Len(tree) |->
       IF tree[i].kind = "instruction"
         THEN PastColumn(cfg, i - 1, tree[i], "ERROR", "Instruction past column {}")
         ELSE <<>>])
  \o (IF cfg.warn_overline_comment
        THEN Flatten([i \in 1..Len(tree) |->
               IF tree[i].kind = "comment"
                 THEN PastColumn(cfg, i - 1, tree[i], "WARNING", "Comment past column {}")
                 ELSE <<>>])
        ELSE <<>>)
  \o Flatten([i \in 1..Len(tree) |->
       IF tree[i].kind = "instruction"
         THEN PastLine(cfg, i - 1, tree[i], "ERROR", "Instruction past line {}")
         ELSE <<>>])
  \o (IF cfg.warn_overline_comment
        THEN Flatten([i \in 1..Len(tree) |->
               IF tree[i].kind = "comment"
                 THEN PastLine(cfg, i - 1, tree[i], "WARNING", "Comment past line {}")
                 ELSE <<>>])
        ELSE <<>>)

\* the overlength checks: instructions past the column limit, comments past it
\* when configured, instructions past the line limit, comments past it when
\* configured
overlength(tree, cfg, diags) ==
  diags
  \o Flatten([i \in 1..Len(tree) |->
       IF tree[i].kind = "instruction"
         THEN PastColumn(cfg, i - 1, tree[i], "ERROR", "Instruction past column {}")
         ELSE <<>>])
  \o (IF cfg.warn_overcolumn_comment
        THEN Flatten([i \in 1..Len(tree) |->
               IF tree[i].kind = "comment"
                 THEN PastColumn(cfg, i - 1, tree[i], "WARNING", "Comment past column {}")
                 ELSE <<>>])
        ELSE <<>>)
  \o Flatten([i \in 1..Len(tree) |->
       IF tree[i].kind = "instruction"
         THEN PastLine(cfg, i - 1, tree[i], "ERROR", "Instruction past line {}")
         ELSE <<>>])
  \o (IF cfg.warn_overline_comment
        THEN Flatten([i \in 1..Len(tree) |->
               IF tree[i].kind = "comment"
                 THEN PastLine(cfg, i - 1, tree[i], "WARNING", "Comment past line {}")
                 ELSE <<>>])
        ELSE <<>>)

\* the mnemonics the absolute jump lint looks at
BRANCH_INSTRUCTIONS ==
  {"bdns", "bdnsal", "bdse", "bdseal", "bap", "bapz", "bapzal", "beq", "beqal",
   "beqz", "beqzal", "bge", "bgeal", "bgez", "bgezal", "bgt", "bgtal", "bgtz",
   "bgtzal", "ble", "bleal", "blez", "blezal", "blt", "bltal", "bltz", "bltzal",
   "bna", "bnaz", "bnazal", "bne", "bneal", "bnez", "bnezal", "j", "jal", "bdnvl",
   "bdnvs"}

\* the positions of the operands of a node that are literal numbers
NumberOperands(node) ==
  {p \in 1..Len(node.operands) : node.operands[p].kind = "number"}

\* the body of the absolute jump loop for the captures of one instruction
AbsoluteJumpBody(row, node) ==
  IF node.operation = <<>> THEN <<>>
  ELSE IF node.operation[1] \notin BRANCH_INSTRUCTIONS THEN <<>>
  ELSE IF Len(node.operands) = 0 THEN <<>>
  ELSE IF node.operands[Len(node.operands)].kind = "number"
    THEN <<Diagnostic(NodeRange(row, node), "WARNING", <<LINT_ABSOLUTE_JUMP>>,
                      "Absolute jump to line number", <<>>, <<>>, <<>>)>>
    ELSE <<>>

\* the lint as it would be if the query captured an instruction once for each
\* of its literal number operands
AbsoluteJump_per_number_operand(row, node) ==
  IF node.kind # "instruction" THEN <<>>
  ELSE Flatten([p \in 1..Cardinality(NumberOperands(node)) |-> AbsoluteJumpBody(row, node)])

\* the captures of (instruction operand: (operand (number))) @x on one line: the
\* query cursor drops a match whose captures equal those of another match of the
\* pattern on the same node, so an instruction with a literal number operand is
\* captured once
AbsoluteJump(row, node) ==
  IF node.kind = "instruction" /\ NumberOperands(node) # {}
    THEN AbsoluteJumpBody(row, node)
    ELSE <<>>

\* the absolute jump to number lint
absolute_jumps(tree, diags) ==
  diags \o Flatten([i \in 1..Len(tree) |-> AbsoluteJump(i - 1, tree[i])])

\* the decimal value of the number tokens that are written as a natural number
Decimal ==
  ("0" :> 0) @@ ("1" :> 1) @@ ("2" :> 2) @@ ("3" :> 3) @@ ("4" :> 4) @@
  ("5" :> 5) @@ ("255" :> 255) @@ ("256" :> 256)

\* str::parse::<u8>: Ok(value) as <<value>>, Err as <<>>
parse_u8(text) ==
  IF text \in DOMAIN Decimal /\ Decimal[text] < 2 ^ 8 THEN <<Decimal[text]>> ELSE <<>>

\* the diagnostics of a literal number used as a mode
NumberMode(range, text, lookup, code, what) ==
  LET value == parse_u8(text)
  IN IF value = <<>>
       THEN <<Diagnostic(range, "ERROR", <<>>, "Use of non-integer " \o what, <<>>, <<>>, <<>>)>>
     ELSE IF value[1] \notin DOMAIN lookup
       THEN <<Diagnostic(range, "ERROR", <<>>, "Invalid " \o what, <<>>, <<>>, <<>>)>>
     ELSE <<Diagnostic(range, "WARNING", <<code>>, "Use of literal number for " \o what,
                       <<>>, <<>>, <<lookup[value[1]]>>)>>

\* the matches of (instruction (operation)@op (operand (number)@n) .) on one line
NumberBatchMode(row, node) ==
  IF node.kind = "instruction" /\ node.operation # <<>> /\ Len(node.operands) >= 1
     /\ node.operands[Len(node.operands)].kind = "number"
     /\ starts_with(node.operation[1], "lb")
    THEN NumberMode(OperandRange(row, Len(node.operands)),
                    node.operands[Len(node.operands)].text,
                    BATCH_MODE_LOOKUP, LINT_NUMBER_BATCH_MODE, "batch mode")
    ELSE <<>>

\* the number batch mode lint
number_batch_modes(tree, diags) ==
  diags \o Flatten([i \in 1..Len(tree) |-> NumberBatchMode(i - 1, tree[i])])

\* the lint as it would be if the query captured the last operand of an `lr`
\* instruction and not the third
NumberReagentMode_last_operand(row, node) ==
  IF node.kind = "instruction" /\ node.operation = <<"lr">> /\ Len(node.operands) >= 3
     /\ node.operands[Len(node.operands)].kind = "number"
    THEN NumberMode(OperandRange(row, Len(node.operands)),
                    node.operands[Len(node.operands)].text,
                    REAGENT_MODE_LOOKUP, LINT_NUMBER_REAGENT_MODE, "reagent mode")
    ELSE <<>>

\* the captures of (instruction (operation "lr") . (operand) . (operand) .
\* (operand (number)@n)) on one line
NumberReagentMode(row, node) ==
  IF node.kind = "instruction" /\ node.operation = <<"lr">> /\ Len(node.operands) >= 3
     /\ node.operands[3].kind = "number"
    THEN NumberMode(OperandRange(row, 3), node.operands[3].text,
                    REAGENT_MODE_LOOKUP, LINT_NUMBER_REAGENT_MODE, "reagent mode")
    ELSE <<>>

\* the number reagent mode lint
number_reagent_modes(tree, diags) ==
  diags \o Flatten([i \in 1..Len(tree) |-> NumberReagentMode(i - 1, tree[i])])

\* the passes before the type check as they would be if the invalid instructions
\* were looked for first
passes_before_check_types_invalid_first(tree, diags) ==
  syntax_errors(tree, invalid_instructions(tree, diags))

\* the passes that run_diagnostics makes before the type check
passes_before_check_types(tree, diags) ==
  invalid_instructions(tree, syntax_errors(tree, diags))

\* the passes that run_diagnostics makes after the type check
passes_after_check_types(tree, cfg, diags) ==
  number_reagent_modes(tree,
    number_batch_modes(tree,
      absolute_jumps(tree,
        overlength(tree, cfg, diags))))

\* run_diagnostics from the point where it holds the read guards of config and
\* files: None as <<>> when the document is unknown or has no tree, otherwise
\* Some of the diagnostics vector that is published
scan(fs, u, cfg, diags) ==
  IF u \notin DOMAIN fs THEN <<>>
  ELSE IF fs[u].document_data.tree = <<>> THEN <<>>
  ELSE
    LET tree == fs[u].document_data.tree[1]
    IN <<passes_after_check_types(tree, cfg,
           check_types(fs, u, passes_before_check_types(tree, diags)))>>

\* Backend::run_diagnostics when no other handler runs between its steps
run_diagnostics(fs, u, cfg) ==
  LET defined == update_definitions(fs, u, <<>>)
  IN [files |-> defined.files,
      published |-> scan(defined.files, u, cfg, defined.diagnostics)]

-----------------------------------------------------------------------------
(* main.rs: Backend::code_action *)

\* the replacements of the absolute jump quick fix
REPLACEMENTS ==
  ("bdns" :> "brdns") @@ ("bdse" :> "brdse") @@ ("bap" :> "brap") @@
  ("bapz" :> "brapz") @@ ("beq" :> "breq") @@ ("beqz" :> "breqz") @@
  ("bge" :> "brge") @@ ("bgez" :> "brgez") @@ ("bgt" :> "brgt") @@
  ("bgtz" :> "brgtz") @@ ("ble" :> "brle") @@ ("blez" :> "brlez") @@
  ("blt" :> "brlt") @@ ("bltz" :> "brltz") @@ ("bna" :> "brna") @@
  ("bnaz" :> "brnaz") @@ ("bne" :> "brne") @@ ("bnez" :> "brnez") @@
  ("j" :> "jr")

\* node_at_range followed by find_parent("line"): the row of the line node that
\* holds the smallest named node spanning the range, Some(row) as <<row>>; a
\* range over several rows, or outside the tree, has no line above it
line_at_range(tree, range) ==
  IF range.start.line = range.end.line /\ range.start.line + 1 \in DOMAIN tree
     /\ tree[range.start.line + 1].kind # "ERROR"
    THEN <<range.start.line>>
    ELSE <<>>

\* the quick fix built for a diagnostic: a text edit of one document
QuickFix(url, diagnostic, range, replacement) ==
  [title |-> <<"Replace with {}", replacement>>, kind |-> "quickfix",
   diagnostics |-> <<diagnostic>>,
   edit |-> [uri |-> url, range |-> range, new_text |-> replacement],
   is_preferred |-> TRUE]

\* the loop over the diagnostics of the request, from the i-th on
RECURSIVE CodeActionLoop(_, _, _, _, _, _)
CodeActionLoop(url, tree, line, diags, i, ret) ==
  IF i > Len(diags) THEN ret
  ELSE
    LET diagnostic == diags[i]
    IN IF line = <<>> THEN CodeActionLoop(url, tree, line, diags, i + 1, ret)
       ELSE IF diagnostic.code = <<>> THEN CodeActionLoop(url, tree, line, diags, i + 1, ret)
       ELSE IF diagnostic.code[1] = LINT_NUMBER_BATCH_MODE
         THEN CodeActionLoop(url, tree, line, diags, i + 1,
                Append(ret, QuickFix(url, diagnostic, diagnostic.range, diagnostic.data[1])))
       ELSE IF diagnostic.code[1] = LINT_ABSOLUTE_JUMP
         THEN LET node == tree[line[1] + 1]
              IN IF node.kind = "instruction" /\ node.operation # <<>>
                   THEN \* the loop ends here, with or without a replacement
                        IF node.operation[1] \in DOMAIN REPLACEMENTS
                          THEN Append(ret, QuickFix(url, diagnostic, OperationRange(line[1]),
                                                    REPLACEMENTS[node.operation[1]]))
                          ELSE ret
                   ELSE CodeActionLoop(url, tree, line, diags, i + 1, ret)
       ELSE CodeActionLoop(url, tree, line, diags, i + 1, ret)

\* Backend::code_action: Err(invalid_request) or Ok(Some(actions)); the search for
\* the node at the range starts from the root node and always yields a node
code_action(fs, params) ==
  IF params.uri \notin DOMAIN fs THEN [tag |-> "Err", actions |-> <<>>]
  ELSE IF fs[params.uri].document_data.tree = <<>> THEN [tag |-> "Err", actions |-> <<>>]
  ELSE
    LET document == fs[params.uri].document_data
        tree == document.tree[1]
    IN [tag |-> "Some",
        actions |-> CodeActionLoop(document.url, tree,
                                   line_at_range(tree, params.range),
                                   params.diagnostics, 1, <<>>)]

-----------------------------------------------------------------------------
(* main.rs: Backend::hover, the arm for an identifier node *)

\* a Hover with one marked string and the range of the node
HoverOf(text, args, range) ==
  [tag |-> "Some", contents |-> [text |-> text, args |-> args], range |-> range]

\* definition_data.value + 1 on a u8: the sum, or on overflow a panic in a build
\* with overflow checks and the wrapped sum in a build without
u8_add_one(value) ==
  IF value + 1 < 2 ^ 8 THEN {<<value + 1>>} ELSE {<<>>, <<(value + 1) % 2 ^ 8>>}

\* the outcomes of hover on an identifier node with a name and a range
hover_identifier(type_data, name, range) ==
  IF name \in DOMAIN type_data.defines
    THEN {HoverOf("define {} {}", <<name, type_data.defines[name].value>>, range)}
  ELSE IF name \in DOMAIN type_data.aliases
    THEN {HoverOf("alias {} {}", <<name, type_data.aliases[name].value.text>>, range)}
  ELSE IF name \in DOMAIN type_data.labels
    THEN {IF line = <<>> THEN [tag |-> "Panic"]
                         ELSE HoverOf("Label on line {}", line, range) :
            line \in u8_add_one(type_data.labels[name].value)}
  ELSE {[tag |-> "None"]}

-----------------------------------------------------------------------------
(* tokio::sync::RwLock as Backend uses it: a fair lock with a queue of requests *)

\* a lock that no handler holds or waits for; readers lists the read guards
\* held, one entry for each guard
NoLock == [readers |-> <<>>, writer |-> <<>>, queue |-> <<>>]

\* Backend::files and Backend::config after construction
NoLocks == [files |-> NoLock, config |-> NoLock]

\* the lock can be taken in a mode: no writer holds it, and no reader if the
\* mode is write
Available(lock, mode) ==
  /\ lock.writer = <<>>
  /\ mode = "write" => lock.readers = <<>>

\* the lock with one more guard
Granted(lock, h, mode) ==
  IF mode = "read" THEN [lock EXCEPT !.readers = Append(@, h)]
                   ELSE [lock EXCEPT !.writer = <<h>>]

\* RwLock::read and RwLock::write when first polled: the guard at once if the
\* lock is available and no request waits, otherwise a place at the end of the
\* queue
Requested(lock, h, mode) ==
  IF lock.queue = <<>> /\ Available(lock, mode)
    THEN Granted(lock, h, mode)
    ELSE [lock EXCEPT !.queue = Append(@, [handler |-> h, mode |-> mode])]

\* the requests at the head of the queue get their guards as long as the lock is
\* available in their mode
RECURSIVE Woken(_)
Woken(lock) ==
  IF lock.queue # <<>> /\ Available(lock, Head(lock.queue).mode)
    THEN Woken(Granted([lock EXCEPT !.queue = Tail(@)],
                       Head(lock.queue).handler, Head(lock.queue).mode))
    ELSE lock

\* the number of read guards a handler holds
Guards(lock, h) == Cardinality({i \in DOMAIN lock.readers : lock.readers[i] = h})

\* a sequence without its first entry for a handler
RECURSIVE Without(_, _)
Without(readers, h) ==
  IF readers = <<>> THEN <<>>
  ELSE IF Head(readers) = h THEN Tail(readers)
  ELSE <<Head(readers)>> \o Without(Tail(readers), h)

\* drop of a guard: the lock without it, and the queue woken
Released(lock, h, mode) ==
  Woken(IF mode = "read" THEN [lock EXCEPT !.readers = Without(@, h)]
                         ELSE [lock EXCEPT !.writer = <<>>])

\* a handler has a request in the queue of the lock
Waits(lock, h) == \E i \in DOMAIN lock.queue : lock.queue[i].handler = h

\* the lock as an await of a handler finds it: as it is if the request of the
\* handler is or was in the queue, with the request made if not
Polled(lock, h, mode, held) ==
  IF Waits(lock, h) \/ Guards(lock, h) > held \/ lock.writer = <<h>>
    THEN lock
    ELSE Requested(lock, h, mode)

-----------------------------------------------------------------------------
(* The documents explored *)

\* all sequences over S of length at most n
SeqUpTo(S, n) == UNION {[1..k -> S] : k \in 0..n}

Uris == {"file:///a.ic10"}

Names == {"a", "b"}

\* the definition lines: define, alias and label instructions and label nodes,
\* among them a define whose value is no literal number and a define with a
\* single operand
DefLines ==
  {Instruction("define", <<Operand("identifier", n), Operand("number", v)>>) :
     n \in Names, v \in {"1", "2"}}
  \cup {Instruction("alias", <<Operand("identifier", n), t>>) :
     n \in Names, t \in {Operand("register", "r0"), Operand("device_spec", "d0")}}
  \cup {Label(n) : n \in Names}
  \cup {Instruction("define", <<Operand("identifier", "a"), Operand("identifier", "b")>>),
        Instruction("define", <<Operand("number", "1")>>),
        Instruction("label", <<Operand("identifier", "a"), Operand("device_spec", "d0")>>)}

\* documents of definition lines only
DefDocs == SeqUpTo(DefLines, MaxDefs)

\* the operand tokens of the type-checked instruction
OperandTokens ==
  {Operand("register", "r0"), Operand("device_spec", "d0"), Operand("number", "1"),
   Operand("identifier", "a"), Operand("logictype", "Maximum"),
   Operand("logictype", "Pressure")}

\* the mnemonics of the type-checked instruction
CheckedOperations == {"add", "yield", "s", "lb", "sbs"}

\* the definitions that precede the type-checked instruction
Environments ==
  {<<>>,
   <<Instruction("define", <<Operand("identifier", "a"), Operand("number", "1")>>)>>,
   <<Instruction("alias", <<Operand("identifier", "a"), Operand("register", "r0")>>)>>,
   <<Instruction("alias", <<Operand("identifier", "a"), Operand("device_spec", "d0")>>)>>,
   <<Label("a")>>,
   <<Label("a"),
     Instruction("alias", <<Operand("identifier", "a"), Operand("device_spec", "d0")>>)>>}

\* documents of some definitions followed by one instruction
TypeDocs ==
  {env \o <<Instruction(op, operands)>> :
     env \in Environments, op \in CheckedOperations,
     operands \in SeqUpTo(OperandTokens, MaxOperands)}

\* the branch and jump mnemonics of the catalog
JumpOperations ==
  {op \in DOMAIN INSTRUCTIONS : starts_with(op, "b") \/ op \in {"j", "jal", "jr"}}

\* the operand tokens of a branch or jump instruction
JumpTokens ==
  {Operand("number", "5"), Operand("register", "r0"), Operand("identifier", "a")}

\* documents of one branch or jump instruction
JumpDocs ==
  {<<Instruction(op, operands)>> :
     op \in JumpOperations, operands \in SeqUpTo(JumpTokens, MaxOperands)}

\* the tokens written where a batch mode or a reagent mode is expected
ModeTokens ==
  {Operand("number", "0"), Operand("number", "3"), Operand("number", "4"),
   Operand("number", "256"), Operand("number", "-1"), Operand("number", "1.5"),
   Operand("logictype", "Maximum"), Operand("register", "r0")}

\* documents of one load instruction with a mode operand
ModeDocs ==
  {<<Instruction("lb", <<Operand("register", "r0"), Operand("number", "1"),
                         Operand("logictype", "Pressure"), m>>)>> : m \in ModeTokens}
  \cup {<<Instruction("lbn", <<Operand("register", "r0"), Operand("number", "1"),
                               Operand("number", "1"), Operand("logictype", "Pressure"),
                               m>>)>> : m \in ModeTokens}
  \cup {<<Instruction("lr", <<Operand("register", "r0"), Operand("device_spec", "d0"),
                              m, Operand("number", "1")>>)>> : m \in ModeTokens}
  \cup {<<Instruction("lr", <<Operand("register", "r0"), Operand("device_spec", "d0"),
                              m>>)>> : m \in ModeTokens}
  \cup {<<Instruction("l", <<Operand("register", "r0"), Operand("device_spec", "d0"),
                             m>>)>> : m \in ModeTokens}

\* the register and device tokens of the language: numbered registers, ra, sp, an
\* indirect register, numbered devices, db, an indirect device, a device with a
\* connection
AliasTargets ==
  {Operand("register", t) : t \in {"r0", "r1", "ra", "sp", "rr0"}}
  \cup {Operand("device_spec", t) : t \in {"d0", "d1", "db", "dr0", "d0:0"}}

\* documents of one alias instruction
AliasDocs ==
  {<<Instruction("alias", <<Operand("identifier", n), t>>)>> :
     n \in Names, t \in AliasTargets}

\* instructions that are well-formed
WellFormed ==
  {Instruction("yield", <<>>),
   Instruction("add", <<Operand("register", "r0"), Operand("register", "r0"),
                        Operand("number", "1")>>)}

\* instructions that a diagnostic is raised for: an unknown identifier, a type
\* mismatch, a superfluous argument, a missing argument, a mnemonic without a
\* signature, an invalid instruction, an absolute jump
Faulty ==
  {Instruction("add", <<Operand("register", "r0"), Operand("identifier", "a"),
                        Operand("number", "1")>>),
   Instruction("add", <<Operand("device_spec", "d0"), Operand("number", "1"),
                        Operand("number", "1")>>),
   Instruction("yield", <<Operand("number", "1")>>),
   Instruction("add", <<Operand("register", "r0")>>),
   Instruction("bdnvl", <<>>),
   InvalidInstruction(<<>>),
   Instruction("j", <<Operand("number", "5")>>)}

\* documents of two or more instructions, faulty or well-formed
PairDocs ==
  {doc \in SeqUpTo(WellFormed \cup Faulty, MaxDefs) : Len(doc) >= 2}

Docs == DefDocs \cup TypeDocs \cup JumpDocs \cup ModeDocs \cup AliasDocs \cup PairDocs

-----------------------------------------------------------------------------
(* One did_open, step by step *)

Init ==
  /\ files = <<>>
  /\ config = Configuration_default
  /\ uri = <<>>
  /\ diagnostics = <<>>
  /\ pc = "idle"
  /\ tasks = <<>>
  /\ published = <<>>
  /\ opened = {}
  /\ response = <<>>
  /\ locks = NoLocks

\* did_open up to its call of run_diagnostics: the content update
DidOpen(u, text) ==
  /\ pc = "idle"
  /\ files' = update_content(files, u, text, parse(text))
  /\ uri' = <<u>>
  /\ diagnostics' = <<>>
  /\ pc' = "update_definitions"
  /\ opened' = opened \cup {u}
  /\ UNCHANGED <<locks, config, tasks, published, response>>

\* run_diagnostics: the call of update_definitions on a fresh diagnostics vector
RunUpdateDefinitions ==
  /\ pc = "update_definitions"
  /\ LET r == update_definitions(files, uri[1], diagnostics)
     IN /\ files' = r.files
        /\ diagnostics' = r.diagnostics
  /\ pc' = "check_types"
  /\ UNCHANGED <<locks, config, uri, tasks, published, opened, response>>

\* run_diagnostics: the syntax error and invalid instruction scans and the call
\* of check_types
RunCheckTypes ==
  /\ pc = "check_types"
  /\ uri[1] \in DOMAIN files
  /\ files[uri[1]].document_data.tree # <<>>
  /\ diagnostics' =
       check_types(files, uri[1],
         passes_before_check_types(files[uri[1]].document_data.tree[1], diagnostics))
  /\ pc' = "checked"
  /\ UNCHANGED <<locks, files, config, uri, tasks, published, opened, response>>

\* run_diagnostics: the overlength checks and the three lints
RunLints ==
  /\ pc = "checked"
  /\ diagnostics' =
       passes_after_check_types(files[uri[1]].document_data.tree[1], config, diagnostics)
  /\ pc' = "linted"
  /\ UNCHANGED <<locks, files, config, uri, tasks, published, opened, response>>

\* run_diagnostics: client.publish_diagnostics
Publish ==
  /\ pc = "linted"
  /\ published' = Insert(published, uri[1], diagnostics)
  /\ pc' = "published"
  /\ UNCHANGED <<locks, files, config, uri, diagnostics, tasks, opened, response>>

\* the published diagnostics that start on a row, in the order of publication
OnRow(diags, row) ==
  SelectSeq(diags, LAMBDA d : d.range.start.line = row)

\* a code_action request for the range of the k-th published diagnostic, which
\* carries that diagnostic alone or all the published diagnostics of its row
CodeAction(k, alone) ==
  /\ pc = "published"
  /\ k \in DOMAIN published[uri[1]]
  /\ LET diagnostic == published[uri[1]][k]
         params == [uri |-> uri[1], range |-> diagnostic.range,
                    diagnostics |-> IF alone THEN <<diagnostic>>
                                    ELSE OnRow(published[uri[1]], diagnostic.range.start.line)]
     IN response' = <<[params |-> params, result |-> code_action(files, params)]>>
  /\ pc' = "answered"
  /\ UNCHANGED <<locks, files, config, uri, diagnostics, tasks, published, opened>>

Next ==
  \/ pc = "idle" /\ \E u \in Uris, text \in Docs : DidOpen(u, text)
  \/ RunUpdateDefinitions
  \/ RunCheckTypes
  \/ RunLints
  \/ Publish
  \/ pc = "published"
     /\ \E k \in DOMAIN published[uri[1]], alone \in BOOLEAN : CodeAction(k, alone)

Spec == Init /\ [][Next]_vars

-----------------------------------------------------------------------------
(* Configuration changes and the overlength checks, step by step *)

\* an optional value of a settings object
Optional(S) == {<<>>} \cup {<<v>> : v \in S}

\* the settings of a workspace/didChangeConfiguration notification
Settings ==
  [max_lines : Optional({Number(1), Number(128)}),
   max_columns : Optional({Number(4), Number(90)}),
   warnings : Optional({Object(overline_comment, overcolumn_comment) :
                          overline_comment \in Optional({Bool(TRUE), Bool(FALSE)}),
                          overcolumn_comment \in Optional({Bool(TRUE), Bool(FALSE)})})]

\* the lines of the documents of the overlength checks: an instruction and a
\* comment that end at column 1, an instruction and a comment that end at column 7
LimitLines ==
  {Instruction("yield", <<>>),
   Instruction("add", <<Operand("register", "r0"), Operand("register", "r0"),
                        Operand("number", "1")>>),
   Comment(<<>>),
   Comment(<<"w", "w", "w">>)}

LimitDocs == SeqUpTo(LimitLines, MaxRows)

\* did_change_configuration: the new configuration, then run_diagnostics for the
\* keys of the files map, up to its call of update_definitions
DidChangeConfiguration(settings) ==
  /\ pc \in {"idle", "published"}
  /\ config' = did_change_configuration(config, settings)
  /\ diagnostics' = <<>>
  /\ pc' = IF DOMAIN files = {} THEN "idle" ELSE "update_definitions"
  /\ UNCHANGED <<locks, files, uri, tasks, published, opened, response>>

LimitsNext ==
  \/ pc \in {"idle", "published"}
     /\ \E settings \in Settings : DidChangeConfiguration(settings)
  \/ pc = "idle" /\ \E u \in Uris, text \in LimitDocs : DidOpen(u, text)
  \/ RunUpdateDefinitions
  \/ RunCheckTypes
  \/ RunLints
  \/ Publish

Limits == Init /\ [][LimitsNext]_vars

-----------------------------------------------------------------------------
(* Labels on any line and the hover on them, step by step *)

\* documents of one label on a line that comment lines precede
LabelDocs ==
  {[i \in 1..(r + 1) |-> IF i = r + 1 THEN Label("a") ELSE Comment(<<>>)] :
     r \in 0..MaxLabelRow}

\* a hover request at the start of a line that holds a label
Hover(line, result) ==
  /\ pc = "published"
  /\ uri[1] \in DOMAIN files
  /\ files[uri[1]].document_data.tree # <<>>
  /\ line + 1 \in DOMAIN files[uri[1]].document_data.tree[1]
  /\ files[uri[1]].document_data.tree[1][line + 1].kind = "label"
  /\ result \in hover_identifier(files[uri[1]].type_data,
                                  files[uri[1]].document_data.tree[1][line + 1].operands[1].text,
                                  LabelNameRange(line))
  /\ response' = <<[params |-> [uri |-> uri[1], position |-> Position(line, 0)],
                    result |-> result]>>
  /\ pc' = "hovered"
  /\ UNCHANGED <<locks, files, config, uri, diagnostics, tasks, published, opened>>

LabelsNext ==
  \/ pc = "idle" /\ \E u \in Uris, text \in LabelDocs : DidOpen(u, text)
  \/ RunUpdateDefinitions
  \/ RunCheckTypes
  \/ RunLints
  \/ Publish
  \/ pc = "published"
     /\ \E result \in {[tag |-> "Panic"]} \cup
                       {HoverOf("Label on line {}", <<n>>, LabelNameRange(Len(files[uri[1]].document_data.content) - 1)) :
                          n \in 0..(MaxLabelRow + 1)} :
          Hover(Len(files[uri[1]].document_data.content) - 1, result)

Labels == Init /\ [][LabelsNext]_vars

-----------------------------------------------------------------------------
(* Several handlers at once *)

\* the handlers the server runs at once
Handlers == {"h1", "h2"}

\* the revisions of the document: one with a duplicate definition, one with an
\* absolute jump and no definition
ServerDocs ==
  {<<Instruction("define", <<Operand("identifier", "a"), Operand("number", "1")>>),
     Instruction("define", <<Operand("identifier", "a"), Operand("number", "2")>>)>>,
   <<Instruction("j", <<Operand("number", "5")>>)>>}

\* a content change with what Parser::parse returns for it: a tree, or None
Changes ==
  {[text |-> text, tree |-> parse(text)] : text \in ServerDocs}
  \cup {[text |-> <<Instruction("j", <<Operand("number", "5")>>)>>, tree |-> <<>>]}

\* a slot that runs no handler
NoTask ==
  [kind |-> "none", uri |-> "", changes |-> <<>>, carried |-> 0, pc |-> "free",
   diagnostics |-> <<>>, runs |-> 0]

\* a handler as it is called: the content changes of its event are still to apply
NewTask(kind, u, changes) ==
  [kind |-> kind, uri |-> u, changes |-> changes, carried |-> Len(changes),
   pc |-> "called", diagnostics |-> <<>>, runs |-> 0]

\* did_change as it would be if run_diagnostics were called inside the loop
position_run_in_loop(task) ==
  IF task.pc = "scan" THEN (IF task.changes = <<>> THEN "free" ELSE "update_content")
  ELSE IF task.pc = "run_diagnostics" THEN "scan"
  ELSE IF task.pc = "called" /\ task.changes # <<>> THEN "update_content"
  ELSE "run_diagnostics"

\* the control flow of did_open and did_change: the next await of a handler, after
\* the call and after each of its steps. The update_content calls come first, one
\* for each content change; then run_diagnostics, which awaits the write lock in
\* update_definitions and then the read guards under which it scans
position(task) ==
  IF task.pc = "scan" THEN "free"
  ELSE IF task.pc = "run_diagnostics" THEN "scan"
  ELSE IF task.changes # <<>> THEN "update_content"
  ELSE "run_diagnostics"

ServerInit ==
  /\ files = <<>>
  /\ config = Configuration_default
  /\ uri = <<>>
  /\ diagnostics = <<>>
  /\ pc = "idle"
  /\ tasks = [h \in Handlers |-> NoTask]
  /\ published = <<>>
  /\ opened = {}
  /\ response = <<>>
  /\ locks = NoLocks

\* the client opens a document: did_open is called with its text
did_open(h, u, change) ==
  /\ tasks[h].pc = "free"
  /\ u \notin opened
  /\ opened' = opened \cup {u}
  /\ LET task == NewTask("did_open", u, <<change>>)
     IN tasks' = [tasks EXCEPT ![h] = [task EXCEPT !.pc = position(task)]]
  /\ UNCHANGED <<locks, files, config, uri, diagnostics, pc, published, response>>

\* the client edits an open document: did_change is called with the content
\* changes of the event
did_change(h, u, changes) ==
  /\ tasks[h].pc = "free"
  /\ u \in opened
  /\ LET task == NewTask("did_change", u, changes)
     IN tasks' = [tasks EXCEPT ![h] = [task EXCEPT !.pc = position(task)]]
  /\ UNCHANGED <<locks, files, config, uri, diagnostics, pc, published, opened, response>>

\* the client closes a document: the server implements no did_close, the
\* notification changes nothing
did_close(u) ==
  /\ u \in opened
  /\ opened' = opened \ {u}
  /\ UNCHANGED <<locks, files, config, uri, diagnostics, pc, tasks, published, response>>

\* a handler applies the next content change of its event
StepUpdateContent(h) ==
  /\ tasks[h].pc = "update_content"
  /\ LET change == Head(tasks[h].changes)
         task == [tasks[h] EXCEPT !.changes = Tail(@)]
     IN /\ files' = update_content(files, tasks[h].uri, change.text, change.tree)
        /\ tasks' = [tasks EXCEPT ![h] = [task EXCEPT !.pc = position(task)]]
  /\ UNCHANGED <<locks, config, uri, diagnostics, pc, published, opened, response>>

\* a handler enters run_diagnostics: update_definitions on a fresh diagnostics vector
StepUpdateDefinitions(h) ==
  /\ tasks[h].pc = "run_diagnostics"
  /\ LET r == update_definitions(files, tasks[h].uri, <<>>)
         task == [tasks[h] EXCEPT !.diagnostics = r.diagnostics, !.runs = @ + 1]
     IN /\ files' = r.files
        /\ tasks' = [tasks EXCEPT ![h] = [task EXCEPT !.pc = position(tasks[h])]]
  /\ UNCHANGED <<locks, config, uri, diagnostics, pc, published, opened, response>>

\* a handler takes the read guards, scans the tree, publishes and returns; it
\* returns without publishing when the document has no tree
StepScan(h) ==
  /\ tasks[h].pc = "scan"
  /\ LET r == scan(files, tasks[h].uri, config, tasks[h].diagnostics)
         next == position(tasks[h])
     IN /\ published' = IF r = <<>> THEN published ELSE Insert(published, tasks[h].uri, r[1])
        /\ tasks' = [tasks EXCEPT ![h] =
                       IF next = "free" THEN NoTask
                       ELSE [tasks[h] EXCEPT !.pc = next, !.diagnostics = <<>>]]
  /\ UNCHANGED <<locks, files, config, uri, diagnostics, pc, opened, response>>

ServerNext ==
  \/ \E h \in Handlers, u \in Uris, change \in Changes : did_open(h, u, change)
  \/ \E h \in Handlers, u \in Uris, changes \in SeqUpTo(Changes, MaxChanges) :
       did_change(h, u, changes)
  \/ \E u \in Uris : did_close(u)
  \/ \E h \in Handlers : StepUpdateContent(h)
  \/ \E h \in Handlers : StepUpdateDefinitions(h)
  \/ \E h \in Handlers : StepScan(h)

Server == ServerInit /\ [][ServerNext]_vars

-----------------------------------------------------------------------------
(* Handlers of two documents at once *)

DocumentUris == {"file:///a.ic10", "file:///b.ic10"}

\* did_open and did_change events of one content change for either document
DocumentsNext ==
  \/ \E h \in Handlers, u \in DocumentUris, change \in Changes : did_open(h, u, change)
  \/ \E h \in Handlers, u \in DocumentUris, change \in Changes :
       did_change(h, u, <<change>>)
  \/ \E h \in Handlers : StepUpdateContent(h)
  \/ \E h \in Handlers : StepUpdateDefinitions(h)
  \/ \E h \in Handlers : StepScan(h)

Documents == ServerInit /\ [][DocumentsNext]_vars

-----------------------------------------------------------------------------
(* Handlers at once, with the locks of files and config *)

\* the settings of the notifications: a value for max_lines, or none
LockedSettings == {settings \in Settings : settings.max_columns = <<>> /\ settings.warnings = <<>>}

\* the keys of a HashMap in an order of its iterator
Keys(map) ==
  {keys \in [1..Cardinality(DOMAIN map) -> DOMAIN map] :
     \A u \in DOMAIN map : \E i \in DOMAIN keys : keys[i] = u}

\* run_diagnostics returns: the handler ends, or did_change_configuration calls
\* run_diagnostics for its next uri
Returned(task) ==
  IF task.kind = "did_change_configuration" /\ task.uris # <<>>
    THEN [task EXCEPT !.uri = Head(task.uris), !.uris = Tail(task.uris),
                      !.pc = "run_diagnostics", !.diagnostics = <<>>]
    ELSE NoTask

\* did_change_configuration is called with the settings of the notification
CallDidChangeConfiguration(h, settings) ==
  /\ tasks[h].pc = "free"
  /\ tasks' = [tasks EXCEPT ![h] =
                 [kind |-> "did_change_configuration", uri |-> "", changes |-> <<>>,
                  carried |-> 0, pc |-> "config.write", diagnostics |-> <<>>,
                  runs |-> 0, uris |-> <<>>, settings |-> settings]]
  /\ UNCHANGED <<locks, files, config, uri, diagnostics, pc, published, opened, response>>

\* update_content: the await of files.write(), and with the guard the new
\* content and tree; the guard is dropped when the function returns
AwaitUpdateContent(h) ==
  /\ tasks[h].pc = "update_content"
  /\ ~Waits(locks.files, h)
  /\ LET lock == Polled(locks.files, h, "write", 0)
         change == Head(tasks[h].changes)
         task == [tasks[h] EXCEPT !.changes = Tail(@)]
     IN IF lock.writer = <<h>>
          THEN /\ files' = update_content(files, tasks[h].uri, change.text, change.tree)
               /\ locks' = [locks EXCEPT !.files = Released(lock, h, "write")]
               /\ tasks' = [tasks EXCEPT ![h] = [task EXCEPT !.pc = position(task)]]
          ELSE /\ locks' = [locks EXCEPT !.files = lock]
               /\ UNCHANGED <<files, tasks>>
  /\ UNCHANGED <<config, uri, diagnostics, pc, published, opened, response>>

\* run_diagnostics calls update_definitions: the await of files.write(), and with
\* the guard the tables of the document rebuilt
AwaitUpdateDefinitions(h) ==
  /\ tasks[h].pc = "run_diagnostics"
  /\ ~Waits(locks.files, h)
  /\ LET lock == Polled(locks.files, h, "write", 0)
         r == update_definitions(files, tasks[h].uri, <<>>)
     IN IF lock.writer = <<h>>
          THEN /\ files' = r.files
               /\ locks' = [locks EXCEPT !.files = Released(lock, h, "write")]
               /\ tasks' = [tasks EXCEPT ![h].diagnostics = r.diagnostics,
                                         ![h].runs = 1, ![h].pc = "config.read"]
          ELSE /\ locks' = [locks EXCEPT !.files = lock]
               /\ UNCHANGED <<files, tasks>>
  /\ UNCHANGED <<config, uri, diagnostics, pc, published, opened, response>>

\* run_diagnostics awaits config.read(); the guard lives until it returns
AwaitConfigRead(h) ==
  /\ tasks[h].pc = "config.read"
  /\ ~Waits(locks.config, h)
  /\ LET lock == Polled(locks.config, h, "read", 0)
     IN /\ locks' = [locks EXCEPT !.config = lock]
        /\ tasks' = IF Guards(lock, h) = 1 THEN [tasks EXCEPT ![h].pc = "files.read"]
                                           ELSE tasks
  /\ UNCHANGED <<files, config, uri, diagnostics, pc, published, opened, response>>

\* run_diagnostics awaits files.read(); the guard lives until it returns. Without
\* the document or its tree it returns here and both guards are dropped
AwaitFilesRead(h) ==
  /\ tasks[h].pc = "files.read"
  /\ ~Waits(locks.files, h)
  /\ LET lock == Polled(locks.files, h, "read", 0)
     IN IF Guards(lock, h) = 0
          THEN /\ locks' = [locks EXCEPT !.files = lock]
               /\ UNCHANGED tasks
          ELSE IF scan(files, tasks[h].uri, config, tasks[h].diagnostics) = <<>>
            THEN /\ locks' = [files |-> Released(lock, h, "read"),
                              config |-> Released(locks.config, h, "read")]
                 /\ tasks' = [tasks EXCEPT ![h] = Returned(tasks[h])]
            ELSE /\ locks' = [locks EXCEPT !.files = lock]
                 /\ tasks' = [tasks EXCEPT ![h].pc = "check_types"]
  /\ UNCHANGED <<files, config, uri, diagnostics, pc, published, opened, response>>

\* check_types awaits files.read() while run_diagnostics holds its guard of the
\* same lock; the second guard is dropped when check_types returns
AwaitCheckTypes(h) ==
  /\ tasks[h].pc = "check_types"
  /\ ~Waits(locks.files, h)
  /\ LET lock == Polled(locks.files, h, "read", 1)
     IN IF Guards(lock, h) = 2
          THEN /\ locks' = [locks EXCEPT !.files = Released(lock, h, "read")]
               /\ tasks' = [tasks EXCEPT ![h].pc = "publish"]
          ELSE /\ locks' = [locks EXCEPT !.files = lock]
               /\ UNCHANGED tasks
  /\ UNCHANGED <<files, config, uri, diagnostics, pc, published, opened, response>>

\* run_diagnostics awaits publish_diagnostics with the diagnostics of its scan
\* and returns: the guards of files and config are dropped
AwaitPublish(h) ==
  /\ tasks[h].pc = "publish"
  /\ published' = Insert(published, tasks[h].uri,
                         scan(files, tasks[h].uri, config, tasks[h].diagnostics)[1])
  /\ locks' = [files |-> Released(locks.files, h, "read"),
               config |-> Released(locks.config, h, "read")]
  /\ tasks' = [tasks EXCEPT ![h] = Returned(tasks[h])]
  /\ UNCHANGED <<files, config, uri, diagnostics, pc, opened, response>>

\* did_change_configuration awaits config.write() and with the guard takes the
\* settings; the guard is dropped at the end of the block
AwaitConfigWrite(h) ==
  /\ tasks[h].pc = "config.write"
  /\ ~Waits(locks.config, h)
  /\ LET lock == Polled(locks.config, h, "write", 0)
     IN IF lock.writer = <<h>>
          THEN /\ config' = did_change_configuration(config, tasks[h].settings)
               /\ locks' = [locks EXCEPT !.config = Released(lock, h, "write")]
               /\ tasks' = [tasks EXCEPT ![h].pc = "keys"]
          ELSE /\ locks' = [locks EXCEPT !.config = lock]
               /\ UNCHANGED <<config, tasks>>
  /\ UNCHANGED <<files, uri, diagnostics, pc, published, opened, response>>

\* did_change_configuration awaits files.read() and with the guard collects the
\* keys of the map; the guard is dropped at the end of the block, and
\* run_diagnostics is called for the first key
AwaitKeys(h) ==
  /\ tasks[h].pc = "keys"
  /\ ~Waits(locks.files, h)
  /\ LET lock == Polled(locks.files, h, "read", 0)
     IN IF Guards(lock, h) = 1
          THEN /\ locks' = [locks EXCEPT !.files = Released(lock, h, "read")]
               /\ \E uris \in Keys(files) :
                    tasks' = [tasks EXCEPT ![h] = Returned([tasks[h] EXCEPT !.uris = uris])]
          ELSE /\ locks' = [locks EXCEPT !.files = lock]
               /\ UNCHANGED tasks
  /\ UNCHANGED <<files, config, uri, diagnostics, pc, published, opened, response>>

\* a handler goes on from the await it is at
Poll(h) ==
  \/ AwaitUpdateContent(h)
  \/ AwaitUpdateDefinitions(h)
  \/ AwaitConfigRead(h)
  \/ AwaitFilesRead(h)
  \/ AwaitCheckTypes(h)
  \/ AwaitPublish(h)
  \/ AwaitConfigWrite(h)
  \/ AwaitKeys(h)

LockedNext ==
  \/ \E h \in Handlers, u \in Uris, change \in Changes : did_open(h, u, change)
  \/ \E h \in Handlers, u \in Uris, changes \in SeqUpTo(Changes, MaxChanges) :
       did_change(h, u, changes)
  \/ \E h \in Handlers, settings \in LockedSettings :
       CallDidChangeConfiguration(h, settings)
  \/ \E h \in Handlers : Poll(h)

\* the executor polls every handler that can go on
Locked ==
  /\ ServerInit
  /\ [][LockedNext]_vars
  /\ \A h \in Handlers : WF_vars(Poll(h))

-----------------------------------------------------------------------------
(* The request handlers, between the handlers of the notifications *)

\* the request handlers of the server that look at a document
Methods ==
  {"completion", "hover", "signature_help", "goto_definition", "code_action",
   "document_symbol", "semantic_tokens_full", "inlay_hint"}

\* HashMap::get: the entry of a key, if there is one
get(map, key) == IF key \in DOMAIN map THEN <<map[key]>> ELSE <<>>

\* the results a handler can return for a document, by its first tests: an
\* error for a uri that is not in the map, an error or Ok(None) for a document
\* without a tree; with a tree, Ok(Some(..)), or Ok(None) from the handlers that
\* look for a node at a position
Results(method, file_data) ==
  IF file_data = <<>>
    THEN IF method \in {"goto_definition", "hover"} THEN {"internal_error"}
                                                     ELSE {"invalid_request"}
  ELSE IF file_data[1].document_data.tree = <<>>
    THEN IF method \in {"goto_definition", "hover"} THEN {"None"}
         ELSE IF method = "code_action" THEN {"invalid_request"}
         ELSE {"internal_error"}
  ELSE IF method \in {"inlay_hint", "semantic_tokens_full", "document_symbol"}
    THEN {"Some"}
  ELSE {"None", "Some"}

\* a request handler as it would be if it looked its document up as
\* update_content does, with the entry of the map: a uri that is not in the map
\* gets an empty document
request_with_entry(fs, method, u) ==
  {[files |-> IF u \in DOMAIN fs THEN fs
              ELSE Insert(fs, u, [document_data |-> [url |-> u, tree |-> <<>>, content |-> <<>>],
                                  type_data |-> TypeData_default]),
    result |-> result] : result \in Results(method, get(fs, u))}

\* a request handler: under the read guard of files it gets the document of the
\* uri and returns a result; the map is the map it was
request(fs, method, u) ==
  {[files |-> fs, result |-> result] : result \in Results(method, get(fs, u))}

\* the client sends a request for a document and the handler answers it
Request(method, u) ==
  /\ \E r \in request(files, method, u) :
       /\ files' = r.files
       /\ response' = <<[method |-> method, uri |-> u, result |-> r.result]>>
  /\ UNCHANGED <<locks, config, uri, diagnostics, pc, tasks, published, opened>>

\* did_open and did_change events of one content change for a document, and
\* requests for that document and for one that was never opened
RequestsNext ==
  \/ \E h \in Handlers, u \in Uris, change \in Changes : did_open(h, u, change)
  \/ \E h \in Handlers, u \in Uris, change \in Changes : did_change(h, u, <<change>>)
  \/ \E h \in Handlers : StepUpdateContent(h)
  \/ \E h \in Handlers : StepUpdateDefinitions(h)
  \/ \E h \in Handlers : StepScan(h)
  \/ \E method \in Methods, u \in DocumentUris : Request(method, u)

Requests == ServerInit /\ [][RequestsNext]_vars

-----------------------------------------------------------------------------
(* did_change_configuration, between did_open handlers of two documents *)

\* settings payloads whose keys are absent or hold a value of their type or of
\* another type
JsonSettings ==
  [max_lines : Optional({Number(1), Number(-1), String("1")}),
   max_columns : Optional({Number(4), Bool(TRUE)}),
   warnings : Optional({Number(1),
                        Object(<<Bool(FALSE)>>, <<>>),
                        Object(<<Number(1)>>, <<Bool(TRUE)>>),
                        Object(<<>>, <<String("true")>>)})]

\* the text of a document that is opened, with a tree and without
OpenChanges == {change \in Changes : Len(change.text) = 1}

\* the handler as it is called, with a log of what it does: the configuration
\* it found, the keys it collected, and each call of run_diagnostics with the
\* configuration that call read
CallWithSettings(h, settings) ==
  /\ tasks[h].pc = "free"
  /\ \A g \in Handlers : tasks[g].kind # "did_change_configuration"
  /\ tasks' = [tasks EXCEPT ![h] =
                 [kind |-> "did_change_configuration", uri |-> "", changes |-> <<>>,
                  carried |-> 0, pc |-> "config.write", diagnostics |-> <<>>,
                  runs |-> 0, uris |-> <<>>, settings |-> settings,
                  log |-> [before |-> config, keys |-> {}, ran |-> <<>>]]]
  /\ UNCHANGED <<locks, files, config, uri, diagnostics, pc, published, opened, response>>

\* the block under the write guard of config
StepConfigure(h) ==
  /\ tasks[h].pc = "config.write"
  /\ config' = did_change_configuration(config, tasks[h].settings)
  /\ tasks' = [tasks EXCEPT ![h].pc = "keys", ![h].log.before = config]
  /\ UNCHANGED <<locks, files, uri, diagnostics, pc, published, opened, response>>

\* the block under the read guard of files: the keys of the map, and the call of
\* run_diagnostics for the first of them
StepKeys(h) ==
  /\ tasks[h].pc = "keys"
  /\ \E uris \in Keys(files) :
       tasks' = [tasks EXCEPT ![h] =
                   Returned([tasks[h] EXCEPT !.uris = uris, !.log.keys = DOMAIN files])]
  /\ UNCHANGED <<locks, files, config, uri, diagnostics, pc, published, opened, response>>

\* run_diagnostics of did_change_configuration from its read guards on: the
\* scan with the configuration, the publication, and the call for the next key
StepScanEach(h) ==
  /\ tasks[h].kind = "did_change_configuration"
  /\ tasks[h].pc = "scan"
  /\ LET r == scan(files, tasks[h].uri, config, tasks[h].diagnostics)
         task == [tasks[h] EXCEPT
                    !.log.ran = Append(@, [uri |-> tasks[h].uri, config |-> config])]
     IN /\ published' = IF r = <<>> THEN published ELSE Insert(published, tasks[h].uri, r[1])
        /\ tasks' = [tasks EXCEPT ![h] = Returned(task)]
  /\ UNCHANGED <<locks, files, config, uri, diagnostics, pc, opened, response>>

ConfiguredNext ==
  \/ \E h \in Handlers, u \in DocumentUris, change \in OpenChanges :
       did_open(h, u, change)
  \/ \E h \in Handlers, settings \in JsonSettings : CallWithSettings(h, settings)
  \/ \E h \in Handlers : StepUpdateContent(h)
  \/ \E h \in Handlers : StepUpdateDefinitions(h)
  \/ \E h \in Handlers : tasks[h].kind # "did_change_configuration" /\ StepScan(h)
  \/ \E h \in Handlers : StepConfigure(h)
  \/ \E h \in Handlers : StepKeys(h)
  \/ \E h \in Handlers : StepScanEach(h)

Configured == ServerInit /\ [][ConfiguredNext]_vars

-----------------------------------------------------------------------------
(* Documents with error nodes *)

\* the lines of the documents: an error node, and for each pass of
\* run_diagnostics a line it raises a diagnostic for
ErrorLines ==
  {Error(<<"x">>),
   Instruction("define", <<Operand("identifier", "a"), Operand("number", "1")>>),
   InvalidInstruction(<<>>),
   Instruction("add", <<Operand("device_spec", "d0"), Operand("number", "1"),
                        Operand("number", "1")>>),
   Instruction("j", <<Operand("number", "5")>>),
   Instruction("lb", <<Operand("register", "r0"), Operand("number", "1"),
                       Operand("logictype", "Pressure"), Operand("number", "1")>>),
   Instruction("lr", <<Operand("register", "r0"), Operand("device_spec", "d0"),
                       Operand("number", "1"), Operand("number", "1")>>)}

ErrorDocs == SeqUpTo(ErrorLines, MaxDefs)

\* settings that set the line limit to one line, or nothing
ErrorSettings ==
  {settings \in Settings :
     /\ settings.max_lines \in {<<>>, <<Number(1)>>}
     /\ settings.max_columns = <<>>
     /\ settings.warnings = <<>>}

ErroneousNext ==
  \/ pc = "idle" /\ \E settings \in ErrorSettings : DidChangeConfiguration(settings)
  \/ pc = "idle" /\ \E u \in Uris, text \in ErrorDocs : DidOpen(u, text)
  \/ RunUpdateDefinitions
  \/ RunCheckTypes
  \/ RunLints
  \/ Publish

Erroneous == Init /\ [][ErroneousNext]_vars

-----------------------------------------------------------------------------
(* Documents with a mnemonic that has no signature *)

\* the mnemonics the server knows that have no signature in the catalog
UnsupportedOperations == {op \in BRANCH_INSTRUCTIONS : op \notin DOMAIN INSTRUCTIONS}

\* documents of some definitions followed by one instruction whose mnemonic has
\* no signature
UnsupportedDocs ==
  {env \o <<Instruction(op, operands)>> :
     env \in Environments, op \in UnsupportedOperations,
     operands \in SeqUpTo(OperandTokens, MaxOperands)}

UnsupportedNext ==
  \/ pc = "idle" /\ \E u \in Uris, text \in UnsupportedDocs : DidOpen(u, text)
  \/ RunUpdateDefinitions
  \/ RunCheckTypes
  \/ RunLints
  \/ Publish

Unsupported == Init /\ [][UnsupportedNext]_vars

-----------------------------------------------------------------------------
(* The operations of Union on slices of any order and repetition *)

\* the types of the slices
UnionTypes == {"Register", "Number", "Device"}

\* the slices a Union or a list of candidates is made of
Unions == SeqUpTo(UnionTypes, MaxUnion)

\* a Union, a second slice and a type, before an operation is applied to them
UnionsInit ==
  /\ files = <<>>
  /\ config = Configuration_default
  /\ uri = <<>>
  /\ diagnostics = <<>>
  /\ pc = "idle"
  /\ tasks = <<>>
  /\ published = <<>>
  /\ opened = {}
  /\ response \in {<<[self |-> self, types |-> types, typ |-> typ,
                      method |-> "", result |-> <<>>]>> :
                     self \in Unions, types \in Unions, typ \in UnionTypes}
  /\ locks = NoLocks

\* self.match_type(typ)
MatchType ==
  /\ pc = "idle"
  /\ response' = <<[response[1] EXCEPT
                      !.method = "match_type",
                      !.result = <<match_type(response[1].self, response[1].typ)>>]>>
  /\ pc' = "answered"
  /\ UNCHANGED <<locks, files, config, uri, diagnostics, tasks, published, opened>>

\* self.match_union(types)
MatchUnion ==
  /\ pc = "idle"
  /\ response' = <<[response[1] EXCEPT
                      !.method = "match_union",
                      !.result = <<match_union(response[1].self, response[1].types)>>]>>
  /\ pc' = "answered"
  /\ UNCHANGED <<locks, files, config, uri, diagnostics, tasks, published, opened>>

\* self.intersection(types)
Intersection ==
  /\ pc = "idle"
  /\ response' = <<[response[1] EXCEPT
                      !.method = "intersection",
                      !.result = <<intersection(response[1].self, response[1].types)>>]>>
  /\ pc' = "answered"
  /\ UNCHANGED <<locks, files, config, uri, diagnostics, tasks, published, opened>>

UnionsNext ==
  \/ MatchType
  \/ MatchUnion
  \/ Intersection

UnionOperations == UnionsInit /\ [][UnionsNext]_vars

-----------------------------------------------------------------------------
(* Vocabulary used by the properties *)

\* the set of elements of a sequence
Elems(s) == {s[i] : i \in DOMAIN s}

\* the tree of the document in progress
Tree == files[uri[1]].document_data.tree[1]

\* the symbol table of the document in progress
Table == files[uri[1]].type_data

\* update_definitions has run for the document in progress
Defined == pc \in {"check_types", "checked"}

\* check_types has run for the document in progress
Checked == pc = "checked"

\* the indices of the diagnostics with a message text at a range
DiagsAt(text, range) ==
  {k \in DOMAIN diagnostics :
     diagnostics[k].message.text = text /\ diagnostics[k].range = range}

\* the indices of the diagnostics with a message text that start on a row
DiagsOnRow(text, row) ==
  {k \in DOMAIN diagnostics :
     diagnostics[k].message.text = text /\ diagnostics[k].range.start.line = row}

\* line i is a define, alias or label instruction that names a name
IsDefinition(tree, i) ==
  /\ tree[i].kind = "instruction"
  /\ tree[i].operation \in {<<"define">>, <<"alias">>, <<"label">>}
  /\ Len(tree[i].operands) >= 1

\* the last operand of line i: the value of a definition
ValueOf(tree, i) == tree[i].operands[Len(tree[i].operands)]

\* line i is a define of a literal number or an alias of a literal register or device
IsBinder(tree, i) ==
  /\ IsDefinition(tree, i)
  /\ IF tree[i].operation = <<"define">>
       THEN ValueOf(tree, i).kind = "number"
       ELSE ValueOf(tree, i).kind \in {"register", "device_spec"}

\* the lines before line i whose define or alias binds name
BindersBefore(tree, name, i) ==
  {j \in 1..(i - 1) : IsBinder(tree, j) /\ tree[j].operands[1].text = name}

\* the label lines before line i that name name
LabelsBefore(tree, name, i) ==
  {j \in 1..(i - 1) : tree[j].kind = "label" /\ tree[j].operands[1].text = name}

\* the least element of a non-empty set of line numbers
First(S) == CHOOSE j \in S : \A k \in S : j <= k

\* the symbol table holds the binding line j makes, as line j wrote it
HoldsBindingOf(tree, j) ==
  LET name == tree[j].operands[1].text
  IN IF tree[j].kind = "label"
       THEN /\ name \in DOMAIN Table.labels
            /\ Table.labels[name] = [range |-> LabelNameRange(j - 1), value |-> j - 1]
     ELSE IF tree[j].operation = <<"define">>
       THEN /\ name \in DOMAIN Table.defines
            /\ Table.defines[name] =
                 [range |-> OperandRange(j - 1, 1), value |-> ValueOf(tree, j).text]
     ELSE /\ name \in DOMAIN Table.aliases
          /\ Table.aliases[name].range = OperandRange(j - 1, 1)
          /\ Table.aliases[name].value.text = ValueOf(tree, j).text

\* line i repeats, in a define or alias, a name an earlier define or alias bound
RepeatsDefinition(tree, i) ==
  /\ IsDefinition(tree, i)
  /\ BindersBefore(tree, tree[i].operands[1].text, i) # {}

-----------------------------------------------------------------------------
(* Symbol table builder *)

\* C1: a define or alias that names a name bound by an earlier define or alias
\* gets exactly one "Duplicate definition" error at its name, related to the
\* first binding's range, and the first binding keeps its range and value.
C1_DuplicateDefinition ==
  Defined =>
    \A i \in DOMAIN Tree :
      RepeatsDefinition(Tree, i) =>
        LET first == First(BindersBefore(Tree, Tree[i].operands[1].text, i))
            found == DiagsAt("Duplicate definition", OperandRange(i - 1, 1))
        IN /\ Cardinality(found) = 1
           /\ \A k \in found :
                /\ diagnostics[k].severity = "ERROR"
                /\ Len(diagnostics[k].related_information) = 1
                /\ diagnostics[k].related_information[1].location.range
                     = OperandRange(first - 1, 1)
           /\ HoldsBindingOf(Tree, first)

\* a document where a define repeats a bound name has been analysed
C1_Witness ==
  /\ Defined
  /\ \E i \in DOMAIN Tree :
       /\ RepeatsDefinition(Tree, i)
       /\ Tree[i].operation = <<"define">>
       /\ ValueOf(Tree, i).text = "2"
       /\ "a" \in DOMAIN Table.defines
       /\ Table.defines["a"].value = "1"
       /\ DiagsAt("Duplicate definition", OperandRange(i - 1, 1)) # {}

\* C2: after update_definitions the key sets of the defines, aliases and labels
\* maps are pairwise disjoint.
C2_DisjointNamespaces ==
  Defined =>
    /\ (DOMAIN Table.defines) \cap (DOMAIN Table.aliases) = {}
    /\ (DOMAIN Table.defines) \cap (DOMAIN Table.labels) = {}
    /\ (DOMAIN Table.aliases) \cap (DOMAIN Table.labels) = {}

\* line i is a label whose name an earlier define, alias or label bound
RepeatsInLabel(tree, i) ==
  /\ tree[i].kind = "label"
  /\ BindersBefore(tree, tree[i].operands[1].text, i)
       \cup LabelsBefore(tree, tree[i].operands[1].text, i) # {}

\* C3: a label whose name is bound by an earlier define, alias or label gets
\* exactly one "Duplicate definition" error at the label's range, binds
\* nothing, and the earlier binding is unchanged.
C3_DuplicateLabel ==
  Defined =>
    \A i \in DOMAIN Tree :
      RepeatsInLabel(Tree, i) =>
        LET name == Tree[i].operands[1].text
            first == First(BindersBefore(Tree, name, i) \cup LabelsBefore(Tree, name, i))
        IN /\ Cardinality(DiagsAt("Duplicate definition", LabelNameRange(i - 1))) = 1
           /\ \A k \in DiagsAt("Duplicate definition", LabelNameRange(i - 1)) :
                diagnostics[k].severity = "ERROR"
           /\ name \in DOMAIN Table.labels =>
                Table.labels[name].range # LabelNameRange(i - 1)
           /\ HoldsBindingOf(Tree, first)

\* a document where a label repeats the name of an earlier alias has been analysed
C3_Witness ==
  /\ Defined
  /\ \E i \in DOMAIN Tree :
       /\ RepeatsInLabel(Tree, i)
       /\ Tree[i].operands[1].text \in DOMAIN Table.aliases
       /\ Tree[i].operands[1].text \notin DOMAIN Table.labels
       /\ DiagsAt("Duplicate definition", LabelNameRange(i - 1)) # {}

-----------------------------------------------------------------------------
(* Type checker *)

\* line i is an instruction whose mnemonic has a signature
HasSignature(tree, i) ==
  /\ tree[i].kind = "instruction"
  /\ tree[i].operation # <<>>
  /\ tree[i].operation[1] \in DOMAIN INSTRUCTIONS

\* the signature of the instruction on line i
SignatureOf(tree, i) == INSTRUCTIONS[tree[i].operation[1]]

\* the operand positions of line i that are paired with a parameter
Paired(tree, i) ==
  {p \in 1..Len(tree[i].operands) : p <= Len(SignatureOf(tree, i))}

\* the four vocabularies
Vocabularies == {"LogicType", "SlotLogicType", "BatchMode", "ReagentMode"}

\* the vocabularies that contain a name
VocabulariesOf(name) == {t \in Vocabularies : name \in VocabularyNames(t)}

\* the operand is classified: it is not an identifier the symbol table lacks
IsClassified(operand, parameter) ==
  operand.kind = "identifier" => identifier_type(Table, parameter, operand.text) # <<>>

\* the classified type set of a classified operand
TypesOf(operand, parameter) ==
  CASE operand.kind = "register" -> {"Register"}
    [] operand.kind = "device_spec" -> {"Device"}
    [] operand.kind = "number" -> {"Number"}
    [] operand.kind = "logictype" -> VocabulariesOf(operand.text)
    [] operand.kind = "identifier" ->
         Elems(identifier_type(Table, parameter, operand.text)[1])

MismatchText == "Type mismatch. Found {}, expected {}"

SuperfluousText == "Superfluous argument{}. '{}' only requires {} arguments."

\* the paired operand p of line i is reported as a mismatch exactly when its
\* type set and the parameter's Union are disjoint
MismatchIffDisjoint(tree, i, p) ==
  LET operand == tree[i].operands[p]
      parameter == SignatureOf(tree, i)[p]
      found == DiagsAt(MismatchText, OperandRange(i - 1, p))
  IN IF TypesOf(operand, parameter) \cap Elems(parameter) = {}
       THEN /\ Cardinality(found) = 1
            /\ \A k \in found : diagnostics[k].severity = "ERROR"
       ELSE found = {}

\* line i is a (Register, Value, Value) instruction given (Device, Number, Number)
IsDeviceNumberNumber(tree, i) ==
  /\ HasSignature(tree, i)
  /\ SignatureOf(tree, i) = <<REGISTER, VALUE, VALUE>>
  /\ Len(tree[i].operands) = 3
  /\ tree[i].operands[1].kind = "device_spec"
  /\ tree[i].operands[2].kind = "number"
  /\ tree[i].operands[3].kind = "number"

\* C4: a classified operand paired with a parameter gets a "Type mismatch" error
\* at its range iff its type set and the parameter's Union do not intersect;
\* (Device, Number, Number) for (Register, Value, Value) gets exactly one, at
\* the first operand.
C4_TypeMismatch ==
  Checked =>
    \A i \in DOMAIN Tree :
      HasSignature(Tree, i) =>
        /\ \A p \in Paired(Tree, i) :
             IsClassified(Tree[i].operands[p], SignatureOf(Tree, i)[p])
               => MismatchIffDisjoint(Tree, i, p)
        /\ IsDeviceNumberNumber(Tree, i) =>
             /\ Cardinality(DiagsOnRow(MismatchText, i - 1)) = 1
             /\ DiagsOnRow(MismatchText, i - 1) = DiagsAt(MismatchText, OperandRange(i - 1, 1))

\* add d0 1 1 has been checked and its first operand reported
C4_Witness ==
  /\ Checked
  /\ \E i \in DOMAIN Tree :
       /\ IsDeviceNumberNumber(Tree, i)
       /\ DiagsAt(MismatchText, OperandRange(i - 1, 1)) # {}

\* line i has more operands than its signature has parameters
HasExcess(tree, i) ==
  HasSignature(tree, i) /\ Len(tree[i].operands) > Len(SignatureOf(tree, i))

\* C5: an instruction with more operands than parameters gets exactly one
\* "Superfluous argument" error, from the start of the first excess operand to
\* the end of the instruction, and no "Invalid number of arguments" error.
C5_SuperfluousArguments ==
  Checked =>
    \A i \in DOMAIN Tree :
      HasExcess(Tree, i) =>
        LET found == DiagsOnRow(SuperfluousText, i - 1)
            first_excess == Len(SignatureOf(Tree, i)) + 1
        IN /\ Cardinality(found) = 1
           /\ \A k \in found :
                /\ diagnostics[k].severity = "ERROR"
                /\ diagnostics[k].range.start = Position(i - 1, 2 * first_excess)
                /\ diagnostics[k].range.end = InstructionRange(i - 1, Tree[i]).end
           /\ DiagsOnRow("Invalid number of arguments", i - 1) = {}

\* a 0-parameter instruction given one operand has been checked and reported
C5_Witness ==
  /\ Checked
  /\ \E i \in DOMAIN Tree :
       /\ HasExcess(Tree, i)
       /\ SignatureOf(Tree, i) = <<>>
       /\ Len(Tree[i].operands) = 1
       /\ DiagsOnRow(SuperfluousText, i - 1) # {}

\* line i has fewer operands than its signature has parameters
HasDeficit(tree, i) ==
  HasSignature(tree, i) /\ Len(tree[i].operands) < Len(SignatureOf(tree, i))

\* C6: an instruction with fewer operands than parameters gets exactly one
\* "Invalid number of arguments" error over the whole instruction, and its
\* operands are still type-checked.
C6_MissingArguments ==
  Checked =>
    \A i \in DOMAIN Tree :
      HasDeficit(Tree, i) =>
        LET found == DiagsOnRow("Invalid number of arguments", i - 1)
        IN /\ Cardinality(found) = 1
           /\ \A k \in found :
                /\ diagnostics[k].severity = "ERROR"
                /\ diagnostics[k].range = InstructionRange(i - 1, Tree[i])
           /\ DiagsOnRow(SuperfluousText, i - 1) = {}
           /\ \A p \in 1..Len(Tree[i].operands) :
                IF IsClassified(Tree[i].operands[p], SignatureOf(Tree, i)[p])
                  THEN MismatchIffDisjoint(Tree, i, p)
                  ELSE DiagsAt("Unknown identifier", OperandRange(i - 1, p)) # {}

\* a 3-parameter instruction given one mistyped operand has been checked:
\* both the arity error and the type mismatch are reported
C6_Witness ==
  /\ Checked
  /\ \E i \in DOMAIN Tree :
       /\ HasDeficit(Tree, i)
       /\ Len(Tree[i].operands) = 1
       /\ DiagsOnRow("Invalid number of arguments", i - 1) # {}
       /\ DiagsAt(MismatchText, OperandRange(i - 1, 1)) # {}

\* the identifier operand p of line i is checked as an operand of the types T
CheckedAs(tree, i, p, T) ==
  LET parameter == SignatureOf(tree, i)[p]
      found == DiagsAt(MismatchText, OperandRange(i - 1, p))
  IN /\ DiagsAt("Unknown identifier", OperandRange(i - 1, p)) = {}
     /\ IF T \cap Elems(parameter) = {} THEN Cardinality(found) = 1 ELSE found = {}
     /\ \A k \in found : Elems(diagnostics[k].message.args[1]) = T

\* C7: an identifier operand is classified from the symbol table: Number when
\* bound as define or label, the stored alias kind when bound as alias, one
\* "Unknown identifier" error and no type mismatch when unbound; a parameter
\* that accepts Name accepts it without lookup.
C7_IdentifierClassification ==
  Checked =>
    \A i \in DOMAIN Tree :
      HasSignature(Tree, i) =>
        \A p \in Paired(Tree, i) :
          Tree[i].operands[p].kind = "identifier" =>
            LET name == Tree[i].operands[p].text
                parameter == SignatureOf(Tree, i)[p]
                range == OperandRange(i - 1, p)
            IN IF "Name" \in Elems(parameter)
                 THEN /\ DiagsAt("Unknown identifier", range) = {}
                      /\ DiagsAt(MismatchText, range) = {}
                 ELSE
                   /\ name \in (DOMAIN Table.defines) \cup (DOMAIN Table.labels)
                        => CheckedAs(Tree, i, p, {"Number"})
                   /\ name \in DOMAIN Table.aliases
                        => CheckedAs(Tree, i, p, {Table.aliases[name].value.tag})
                   /\ name \notin (DOMAIN Table.defines) \cup (DOMAIN Table.labels)
                                    \cup (DOMAIN Table.aliases)
                        => /\ Cardinality(DiagsAt("Unknown identifier", range)) = 1
                           /\ DiagsAt(MismatchText, range) = {}

\* C8: a vocabulary name is classified as the set of all vocabularies that
\* contain it and accepted exactly when one of them is in the parameter's
\* Union; no other diagnostic is raised for it.
C8_VocabularyNames ==
  Checked =>
    \A i \in DOMAIN Tree :
      HasSignature(Tree, i) =>
        \A p \in Paired(Tree, i) :
          Tree[i].operands[p].kind = "logictype" =>
            LET vocabularies == VocabulariesOf(Tree[i].operands[p].text)
                here == {k \in DOMAIN diagnostics :
                           diagnostics[k].range = OperandRange(i - 1, p)}
            IN /\ here = {} <=> vocabularies \cap Elems(SignatureOf(Tree, i)[p]) # {}
               /\ Cardinality(here) <= 1
               /\ \A k \in here :
                    /\ diagnostics[k].message.text = MismatchText
                    /\ Elems(diagnostics[k].message.args[1]) = vocabularies

\* a name of two vocabularies has been accepted in a batch mode position, and
\* a name of two others rejected there
C8_Witness ==
  /\ Checked
  /\ \E i \in DOMAIN Tree :
       /\ HasSignature(Tree, i)
       /\ Len(Tree[i].operands) = 4
       /\ Len(SignatureOf(Tree, i)) = 4
       /\ SignatureOf(Tree, i)[4] = BATCH_MODE
       /\ Tree[i].operands[4] = Operand("logictype", "Maximum")
       /\ Tree[i].operands[3] = Operand("logictype", "Pressure")
       /\ Tree[i].operands[2] = Operand("logictype", "Pressure")
       /\ VocabulariesOf("Maximum") = {"LogicType", "BatchMode"}
       /\ VocabulariesOf("Pressure") = {"LogicType", "SlotLogicType"}
       /\ DiagsAt(MismatchText, OperandRange(i - 1, 4)) = {}
       /\ DiagsAt(MismatchText, OperandRange(i - 1, 3)) = {}
       /\ DiagsAt(MismatchText, OperandRange(i - 1, 2)) # {}

-----------------------------------------------------------------------------
(* Catalog and vocabulary tables *)

\* the positions of a handler: the tables are the same at all of them
Positions ==
  {"idle", "update_definitions", "check_types", "checked", "linted", "published",
   "answered"}

\* C9: the signature table and the documentation table have the same mnemonics.
C9_CatalogClosure ==
  pc \in Positions => DOMAIN INSTRUCTIONS = INSTRUCTION_DOCS

\* C10: for each of the four vocabularies the names are the keys of the
\* vocabulary's documentation table.
C10_VocabularyClosure ==
  pc \in Positions => \A t \in Vocabularies : VocabularyNames(t) = VocabularyDocs(t)

-----------------------------------------------------------------------------
(* The lints and the quick fixes *)

\* the lint passes have run for the document in progress
Linted == pc \in {"linted", "published", "answered"}

\* the indices of the diagnostics with a stable code that start on a row
CodedOnRow(code, row) ==
  {k \in DOMAIN diagnostics :
     diagnostics[k].code = <<code>> /\ diagnostics[k].range.start.line = row}

\* line i is an instruction with a mnemonic and at least one operand
HasOperands(tree, i) ==
  /\ tree[i].kind = "instruction"
  /\ tree[i].operation # <<>>
  /\ Len(tree[i].operands) >= 1

\* the final operand of line i is a literal number
EndsInNumber(tree, i) ==
  tree[i].operands[Len(tree[i].operands)].kind = "number"

\* a relative branch or jump mnemonic
IsRelative(op) == starts_with(op, "br") \/ op = "jr"

\* an absolute branch or jump mnemonic
IsAbsolute(op) ==
  (starts_with(op, "b") /\ ~starts_with(op, "br")) \/ op = "j" \/ op = "jal"

\* C18: an instruction with a mnemonic of the absolute jump lint and a literal
\* number as final operand gets exactly one L001 warning, at its range, however
\* many of its operands are literal numbers; an instruction whose final operand
\* is no literal number, and every relative branch or jump, gets none.
C18_OneAbsoluteJumpWarning ==
  Linted =>
    \A i \in DOMAIN Tree :
      HasOperands(Tree, i) =>
        LET found == CodedOnRow(LINT_ABSOLUTE_JUMP, i - 1)
            op == Tree[i].operation[1]
        IN /\ (op \in BRANCH_INSTRUCTIONS /\ EndsInNumber(Tree, i)) =>
                /\ Cardinality(found) = 1
                /\ \A k \in found :
                     /\ diagnostics[k].severity = "WARNING"
                     /\ diagnostics[k].range = InstructionRange(i - 1, Tree[i])
           /\ (~EndsInNumber(Tree, i) \/ IsRelative(op)) => found = {}

\* `beq 5 5 5` has been linted: three literal numbers, one warning
C18_Witness ==
  /\ pc = "linted"
  /\ Tree = <<Instruction("beq", <<Operand("number", "5"), Operand("number", "5"),
                                   Operand("number", "5")>>)>>
  /\ Cardinality(CodedOnRow(LINT_ABSOLUTE_JUMP, 0)) = 1

\* C19: every instruction with an absolute branch or jump mnemonic of the catalog
\* and a literal number as final operand gets an L001 warning.
C19_EveryAbsoluteJumpWarned ==
  Linted =>
    \A i \in DOMAIN Tree :
      (/\ HasOperands(Tree, i)
       /\ Tree[i].operation[1] \in DOMAIN INSTRUCTIONS
       /\ IsAbsolute(Tree[i].operation[1])
       /\ EndsInNumber(Tree, i)) =>
        \E k \in CodedOnRow(LINT_ABSOLUTE_JUMP, i - 1) : diagnostics[k].severity = "WARNING"

\* the quick fixes of the response made for a diagnostic
FixesOf(d) ==
  {a \in DOMAIN response[1].result.actions :
     LET action == response[1].result.actions[a]
     IN /\ action.kind = "quickfix"
        /\ Len(action.diagnostics) = 1
        /\ action.diagnostics[1].code = d.code
        /\ action.diagnostics[1].range = d.range}

\* the text edit a diagnostic with a stable code calls for
IsFixOf(edit, d) ==
  LET row == d.range.start.line
  IN /\ edit.uri = uri[1]
     /\ IF d.code = <<LINT_ABSOLUTE_JUMP>>
          THEN /\ edit.range = OperationRange(row)
               /\ edit.new_text \in DOMAIN INSTRUCTIONS
               /\ IsRelative(edit.new_text)
          ELSE /\ edit.range = d.range
               /\ edit.new_text \in
                    (IF d.code = <<LINT_NUMBER_BATCH_MODE>> THEN BATCH_MODES ELSE REAGENT_MODES)
               /\ <<edit.new_text>> = d.data

\* C20: a code_action request that carries a published diagnostic with a stable
\* code (L001, L002, L003) for its line is answered with a quick fix for it that
\* holds a text edit: the relative mnemonic for L001, the symbolic name of the mode
\* for L002 and L003.
C20_QuickFixForEveryCode ==
  pc = "answered" =>
    \A i \in DOMAIN response[1].params.diagnostics :
      LET d == response[1].params.diagnostics[i]
      IN d.code # <<>> =>
           /\ response[1].result.tag = "Some"
           /\ \E a \in FixesOf(d) : IsFixOf(response[1].result.actions[a].edit, d)

-----------------------------------------------------------------------------
(* The handlers: revisions, interleavings, open and close *)

\* the stored tree of a document: Some(tree) as <<tree>>, None as <<>>
TreeOf(u) == IF u \in DOMAIN files THEN files[u].document_data.tree ELSE <<>>

\* handler h makes the step it awaits at a position
Leaves(h, at) == tasks[h].pc = at /\ tasks'[h].pc # at

\* no handler is in progress
Quiet == \A h \in Handlers : tasks[h].pc = "free"

\* two diagnostic lists are the same, diagnostic by diagnostic
SameList(a, b) ==
  /\ Len(a) = Len(b)
  /\ \A k \in DOMAIN a :
       /\ a[k].message.text = b[k].message.text
       /\ a[k].range = b[k].range
       /\ a[k].severity = b[k].severity
       /\ a[k].code = b[k].code
       /\ a[k].data = b[k].data
       /\ a[k].related_information = b[k].related_information
       /\ a[k].message.args = b[k].message.args

\* C11: when the stored revision of a document has no tree, the update_definitions
\* of a handler leaves the three maps of the document as they are and reports
\* nothing, and its run_diagnostics returns without publishing: what was
\* published before stays in force.
C11_FailedParse ==
  [][\A h \in Handlers :
       TreeOf(tasks[h].uri) = <<>> =>
         /\ Leaves(h, "run_diagnostics") =>
              /\ files' = files
              /\ tasks'[h].diagnostics = <<>>
         /\ Leaves(h, "scan") => published' = published]_vars

\* a change that did not parse has been handled to the end: the document has no
\* tree, its table still binds `a` and the diagnostics published for it stand
C11_Witness ==
  /\ Quiet
  /\ \E u \in DOMAIN files :
       /\ files[u].document_data.tree = <<>>
       /\ "a" \in DOMAIN files[u].type_data.defines
       /\ u \in DOMAIN published
       /\ published[u] # <<>>

\* the diagnostics run_diagnostics publishes for a revision when it is the only
\* handler: the document is stored, its definitions are collected and its tree is
\* scanned with no other step in between
Analysis(u, text) ==
  run_diagnostics(update_content(<<>>, u, text, parse(text)), u, config).published[1]

\* C12: every diagnostic list that is published for a document is the list of one
\* revision: the duplicate definitions, the symbol table and the scanned tree it
\* was made from belong to the same content.
C12_SingleRevision ==
  \A u \in DOMAIN published :
    \E text \in ServerDocs : SameList(published[u], Analysis(u, text))

\* C13: when every handler has returned, the diagnostics published last for a
\* document whose stored revision has a tree are those of the stored content.
C13_FinalDiagnostics ==
  Quiet =>
    \A u \in DOMAIN published :
      TreeOf(u) # <<>> =>
        SameList(published[u], Analysis(u, files[u].document_data.content))

\* handler h returns
Returns(h) == tasks[h].pc # "free" /\ tasks'[h].pc = "free"

\* C14: a did_open or did_change handler calls run_diagnostics exactly once, for
\* the document of its event, after every content change of the event has been
\* applied, whether the event carries no change, one or several.
C14_OneRunPerEvent ==
  [][\A h \in Handlers :
       /\ tasks'[h].runs <= 1
       /\ tasks'[h].runs = 1 => tasks'[h].changes = <<>>
       /\ Leaves(h, "run_diagnostics") =>
            /\ tasks'[h].runs = tasks[h].runs + 1
            /\ tasks'[h].uri = tasks[h].uri
       /\ Returns(h) =>
            /\ tasks[h].pc = "scan"
            /\ tasks[h].runs = 1
            /\ tasks[h].changes = <<>>]_vars

\* two did_change handlers are in run_diagnostics, one for an event with two
\* content changes and one for an event with none
C14_Witness ==
  \E g, h \in Handlers :
    /\ tasks[g].kind = "did_change" /\ tasks[g].carried = 2
    /\ tasks[g].pc = "scan" /\ tasks[g].runs = 1 /\ tasks[g].changes = <<>>
    /\ tasks[h].kind = "did_change" /\ tasks[h].carried = 0
    /\ tasks[h].pc = "scan" /\ tasks[h].runs = 1

\* the binding of a name in a map of a table comes from a line of the tree: the
\* range of the binding is the name of a construct of the tree that binds the name
\* in this map
BoundBy(tree, table, map, name) ==
  LET i == table[map][name].range.start.line + 1
  IN /\ i \in DOMAIN tree
     /\ Len(tree[i].operands) >= 1
     /\ tree[i].operands[1].text = name
     /\ CASE map = "defines" ->
               /\ IsBinder(tree, i) /\ tree[i].operation = <<"define">>
               /\ table[map][name].range = OperandRange(i - 1, 1)
               /\ table[map][name].value = ValueOf(tree, i).text
          [] map = "aliases" ->
               /\ IsBinder(tree, i) /\ tree[i].operation \in {<<"alias">>, <<"label">>}
               /\ table[map][name].range = OperandRange(i - 1, 1)
               /\ table[map][name].value.text = ValueOf(tree, i).text
          [] map = "labels" ->
               /\ tree[i].kind = "label"
               /\ table[map][name].range = LabelNameRange(i - 1)

\* a table holds the bindings of the constructs of a tree and no other
HoldsBindingsOf(tree, table) ==
  /\ \A map \in {"defines", "aliases", "labels"} :
       \A name \in DOMAIN table[map] : BoundBy(tree, table, map, name)
  /\ \A i \in DOMAIN tree :
       (IsBinder(tree, i) \/ tree[i].kind = "label") =>
         tree[i].operands[1].text \in
           DOMAIN table.defines \cup DOMAIN table.aliases \cup DOMAIN table.labels

\* C15: when update_definitions has run on a revision that has a tree, the
\* symbol table holds the bindings of the define, alias and label constructs of
\* that revision and nothing else: a name the edit no longer defines is not bound.
C15_RebuiltWholesale ==
  [][\A h \in Handlers :
       (Leaves(h, "run_diagnostics") /\ TreeOf(tasks[h].uri) # <<>>) =>
         HoldsBindingsOf(TreeOf(tasks[h].uri)[1], files'[tasks[h].uri].type_data)]_vars

\* a did_change handler has collected the definitions of `j 5`, which has none,
\* after the revision that defines `a` was analysed: the table binds nothing
C15_Witness ==
  \E h \in Handlers :
    /\ tasks[h].kind = "did_change"
    /\ tasks[h].pc = "scan"
    /\ TreeOf(tasks[h].uri) = <<<<Instruction("j", <<Operand("number", "5")>>)>>>>
    /\ files[tasks[h].uri].type_data = TypeData_default
    /\ tasks[h].uri \in DOMAIN published
    /\ \E k \in DOMAIN published[tasks[h].uri] :
         published[tasks[h].uri][k].message.text = "Duplicate definition"

\* C16: a second run_diagnostics on the same document, with content, tree and
\* configuration unchanged, publishes the list the first one published and leaves
\* the symbol table as the first one left it.
C16_SecondRunSame ==
  pc = "published" =>
    LET again == run_diagnostics(files, uri[1], config)
    IN /\ again.published # <<>>
       /\ SameList(again.published[1], published[uri[1]])
       /\ again.files = files

\* the first run has published diagnostics for a document that binds names
C16_Witness ==
  /\ pc = "published"
  /\ published[uri[1]] # <<>>
  /\ files[uri[1]].type_data # TypeData_default

\* C17: a document that has been closed has no entry in the files map: the files
\* map holds open documents only.
C17_ClosedRemoved ==
  \A u \in DOMAIN files : u \in opened

-----------------------------------------------------------------------------
(* Claims about the mode lints *)

\* the messages of the lint of literal numbers used as a mode
ModeTexts(what) ==
  {"Use of non-integer " \o what, "Invalid " \o what, "Use of literal number for " \o what}

\* the indices of the diagnostics of a mode lint that start on a row
ModeDiags(what, row) ==
  {k \in DOMAIN diagnostics :
     /\ diagnostics[k].message.text \in ModeTexts(what)
     /\ diagnostics[k].range.start.line = row}

\* the number tokens of the documents that are written as an integer
IntegerLiterals == DOMAIN Decimal \cup {"-1"}

\* a number token is written as a code of a mode table
IsCode(text, lookup) == text \in DOMAIN Decimal /\ Decimal[text] \in DOMAIN lookup

\* the text of the operand a diagnostic of a mode lint is raised at
TextAt(tree, k) ==
  tree[diagnostics[k].range.start.line + 1]
    .operands[diagnostics[k].range.start.character \div 2].text

\* the diagnostics found for the literal at operand p of line i are the one
\* diagnostic this literal calls for: the warning with the name of the mode as
\* payload for a code of the table, an error for any other number
OneModeDiagnostic(found, tree, i, p, lookup, code) ==
  /\ Cardinality(found) = 1
  /\ \A k \in found :
       /\ diagnostics[k].range = OperandRange(i - 1, p)
       /\ IF IsCode(tree[i].operands[p].text, lookup)
            THEN /\ diagnostics[k].severity = "WARNING"
                 /\ diagnostics[k].code = <<code>>
                 /\ diagnostics[k].data = <<lookup[Decimal[tree[i].operands[p].text]]>>
            ELSE /\ diagnostics[k].severity = "ERROR"
                 /\ diagnostics[k].code = <<>>

\* C21: every warning of a lint pass (absolute jump, literal batch mode, literal
\* reagent mode) carries a stable code and a suggested replacement as its data.
C21_LintWarningsCarryPayload ==
  Linted =>
    \A k \in DOMAIN diagnostics :
      diagnostics[k].message.text \in
          {"Absolute jump to line number", "Use of literal number for batch mode",
           "Use of literal number for reagent mode"} =>
        /\ diagnostics[k].severity = "WARNING"
        /\ diagnostics[k].code # <<>>
        /\ diagnostics[k].data # <<>>

\* C22: a batch load instruction that ends in a literal number n: when n stands
\* where the signature has its batch mode, there is exactly one batch mode
\* diagnostic, at the literal, the L002 warning with the name of n as payload if
\* n is a code of the table (1 gives Sum) and an error otherwise; when n stands
\* anywhere else, there is no batch mode diagnostic.
C22_BatchModeLiteral ==
  Linted =>
    \A i \in DOMAIN Tree :
      (/\ HasSignature(Tree, i)
       /\ BATCH_MODE \in Elems(SignatureOf(Tree, i))
       /\ Len(Tree[i].operands) >= 1
       /\ EndsInNumber(Tree, i)) =>
        LET p == Len(Tree[i].operands)
            found == ModeDiags("batch mode", i - 1)
        IN IF p <= Len(SignatureOf(Tree, i)) /\ SignatureOf(Tree, i)[p] = BATCH_MODE
             THEN OneModeDiagnostic(found, Tree, i, p, BATCH_MODE_LOOKUP,
                                    LINT_NUMBER_BATCH_MODE)
             ELSE found = {}

\* C23: in both mode lints an integer literal that is no code of the table, a
\* negative one or one of 256 or more included, is reported as Invalid batch mode
\* / Invalid reagent mode, and the non-integer error is raised for literals that
\* are no integers only.
C23_InvalidModeForIntegers ==
  Linted =>
    \A what \in {"batch mode", "reagent mode"} :
      \A k \in DOMAIN diagnostics :
        diagnostics[k].message.text \in ModeTexts(what) =>
          LET text == TextAt(Tree, k)
              lookup == IF what = "batch mode" THEN BATCH_MODE_LOOKUP
                                               ELSE REAGENT_MODE_LOOKUP
          IN /\ (text \in IntegerLiterals /\ ~IsCode(text, lookup)) =>
                  diagnostics[k].message.text = "Invalid " \o what
             /\ diagnostics[k].message.text = "Use of non-integer " \o what =>
                  text \notin IntegerLiterals

\* C24: the reagent mode lint looks at the third operand of `lr` only: a literal
\* number n there gets exactly one reagent mode diagnostic, at the literal, the
\* L003 warning with the name of n as payload if n is a code of the table and an
\* error otherwise; no other line and no other operand gets a reagent mode
\* diagnostic.
C24_ReagentModeLiteral ==
  Linted =>
    \A i \in DOMAIN Tree :
      LET found == ModeDiags("reagent mode", i - 1)
      IN IF /\ Tree[i].kind = "instruction"
            /\ Tree[i].operation = <<"lr">>
            /\ Len(Tree[i].operands) >= 3
            /\ Tree[i].operands[3].kind = "number"
           THEN OneModeDiagnostic(found, Tree, i, 3, REAGENT_MODE_LOOKUP,
                                  LINT_NUMBER_REAGENT_MODE)
           ELSE found = {}

\* `lr r0 d0 0 1` has been linted: one warning, at the third operand, for Contents
C24_Witness ==
  /\ pc = "linted"
  /\ Tree = <<Instruction("lr", <<Operand("register", "r0"), Operand("device_spec", "d0"),
                                  Operand("number", "0"), Operand("number", "1")>>)>>
  /\ \E k \in ModeDiags("reagent mode", 0) :
       /\ diagnostics[k].range = OperandRange(0, 3)
       /\ diagnostics[k].data = <<"Contents">>

-----------------------------------------------------------------------------
(* Claims about the bindings *)

\* update_definitions has run for the document in progress
AfterDefinitions == Defined \/ Linted

\* the target token of the alias instruction that bound a name
TargetOf(tree, table, name) ==
  LET i == table.aliases[name].range.start.line + 1
  IN tree[i].operands[Len(tree[i].operands)]

-----------------------------------------------------------------------------
(* Claims about the instruction loop *)

\* line i is an instruction that binds no name
IsPlainInstruction(tree, i) ==
  /\ tree[i].kind = "instruction"
  /\ tree[i].operation \notin {<<"define">>, <<"alias">>, <<"label">>}

\* the list run_diagnostics publishes for the document in progress when its
\* content is the given text
PublishedFor(text) ==
  run_diagnostics(update_content(files, uri[1], text, parse(text)), uri[1], config).published[1]

-----------------------------------------------------------------------------
(* Claims about the overlength checks *)

\* the number of diagnostics with a message text on a row is one if the
\* condition holds and zero if not, and they have the severity
OneIff(text, row, severity, condition) ==
  /\ Cardinality(DiagsOnRow(text, row)) = (IF condition THEN 1 ELSE 0)
  /\ \A k \in DiagsOnRow(text, row) : diagnostics[k].severity = severity

\* C25: an instruction that ends past max_columns gets an error, and so does an
\* instruction on a line index of max_lines or more; a comment past max_columns
\* gets a warning exactly when warn_overcolumn_comment is set and a comment on a
\* line index of max_lines or more exactly when warn_overline_comment is set; no
\* limit and no toggle bears on another check.
C25_Overlength ==
  pc = "linted" =>
    \A i \in DOMAIN Tree :
      LET row == i - 1
          wide == end_position(row, Tree[i]).character > config.max_columns
          late == row >= config.max_lines
          instruction == Tree[i].kind = "instruction"
          comment == Tree[i].kind = "comment"
      IN /\ OneIff("Instruction past column {}", row, "ERROR", instruction /\ wide)
         /\ OneIff("Instruction past line {}", row, "ERROR", instruction /\ late)
         /\ OneIff("Comment past column {}", row, "WARNING",
                   comment /\ wide /\ config.warn_overcolumn_comment)
         /\ OneIff("Comment past line {}", row, "WARNING",
                   comment /\ late /\ config.warn_overline_comment)

\* a comment past both limits has been checked with the column warning set and
\* the line warning cleared: it has the column warning only
C25_Witness ==
  /\ pc = "linted"
  /\ config = [max_lines |-> 1, max_columns |-> 4,
               warn_overline_comment |-> FALSE, warn_overcolumn_comment |-> TRUE]
  /\ Tree = <<Instruction("yield", <<>>), Comment(<<"w", "w", "w">>)>>
  /\ Cardinality(DiagsOnRow("Comment past column {}", 1)) = 1
  /\ DiagsOnRow("Comment past line {}", 1) = {}

-----------------------------------------------------------------------------
(* Claims about labels *)

\* C27: a label on the zero-based line r, whatever r is, is bound to the value r,
\* and the hover on it reports line r + 1.
C27_LabelLine ==
  /\ AfterDefinitions =>
       \A name \in DOMAIN Table.labels :
         Table.labels[name].value = Table.labels[name].range.start.line
  /\ pc = "hovered" =>
       /\ response[1].result.tag = "Some"
       /\ response[1].result.contents.args = <<response[1].params.position.line + 1>>

-----------------------------------------------------------------------------
(* Claims about handlers of different documents *)

\* the document a handler works on in a step: the one of its event
DocumentOf(h) == IF tasks[h].pc = "free" THEN tasks'[h].uri ELSE tasks[h].uri

\* C29: a step of a handler, be it the call, a content update, update_definitions
\* or the scan, leaves the content, the tree and the symbol table of every
\* document other than the handler's own as they are, whatever the other handler
\* does in between.
C29_OtherDocumentsUntouched ==
  [][\A h \in Handlers :
       tasks'[h] # tasks[h] =>
         \A v \in DocumentUris \ {DocumentOf(h)} :
           /\ v \in DOMAIN files' <=> v \in DOMAIN files
           /\ v \in DOMAIN files => files'[v] = files[v]]_vars

\* a handler has updated the content and collected the definitions of one
\* document while the other document holds a binding of its own
C29_Witness ==
  \E h \in Handlers :
    /\ tasks[h].pc = "scan"
    /\ tasks[h].uri = "file:///b.ic10"
    /\ "file:///b.ic10" \in DOMAIN files
    /\ "file:///a.ic10" \in DOMAIN files
    /\ "a" \in DOMAIN files["file:///a.ic10"].type_data.defines
    /\ files["file:///b.ic10"].type_data = TypeData_default

\* C30: under any interleaving of did_open, did_change and
\* did_change_configuration handlers with fair locks, every handler that was
\* called returns: none waits forever for the lock of files or of config
C30_EveryHandlerReturns ==
  \A h \in Handlers : (tasks[h].pc # "free") ~> (tasks[h].pc = "free")

-----------------------------------------------------------------------------
(* Claims about the operands of define and alias *)

\* the line whose instruction bound a name in a map of the table
BinderOf(tree, table, map, name) == tree[table[map][name].range.start.line + 1]

\* C31: a define or alias binds only when it has a name operand and a separate
\* value operand: a define only if the value is a literal number, an alias only
\* if it is a literal register or device; with a single operand nothing is bound.
C31_BindsWithSeparateValue ==
  pc = "check_types" =>
    /\ \A name \in DOMAIN Table.defines :
         LET node == BinderOf(Tree, Table, "defines", name)
         IN /\ Len(node.operands) >= 2
            /\ node.operands[Len(node.operands)].kind = "number"
    /\ \A name \in DOMAIN Table.aliases :
         LET node == BinderOf(Tree, Table, "aliases", name)
         IN /\ Len(node.operands) >= 2
            /\ node.operands[Len(node.operands)].kind \in {"register", "device_spec"}

-----------------------------------------------------------------------------
(* Claims about the request handlers *)

\* C32: completion, hover, signature_help, goto_definition, code_action,
\* document_symbol, semantic_tokens_full and inlay_hint never change the files
\* map or the configuration, whether the request succeeds, returns nothing, or
\* fails because the document is unknown or has no tree.
C32_RequestsChangeNothing ==
  [][(\E method \in Methods, u \in DocumentUris : Request(method, u))
       => files' = files /\ config' = config]_vars

\* a request for an unknown document has failed, and the map has no entry for it
C32_Witness ==
  /\ response # <<>>
  /\ response[1].result = "invalid_request"
  /\ response[1].method = "completion"
  /\ response[1].uri \notin DOMAIN files
  /\ DOMAIN files # {}

-----------------------------------------------------------------------------
(* Claims about did_change_configuration *)

\* the value of its type that a settings payload holds for a field, if it holds one
Held(settings, field) ==
  CASE field = "max_lines" -> as_u64(settings.max_lines)
    [] field = "max_columns" -> as_u64(settings.max_columns)
    [] field = "warn_overline_comment" ->
         IF as_object(settings.warnings) = <<>> THEN <<>>
         ELSE as_bool(settings.warnings[1].overline_comment)
    [] field = "warn_overcolumn_comment" ->
         IF as_object(settings.warnings) = <<>> THEN <<>>
         ELSE as_bool(settings.warnings[1].overcolumn_comment)

\* a configuration is an earlier one with the fields a settings payload holds
Updated(cfg, before, settings) ==
  \A field \in DOMAIN before :
    cfg[field] = IF Held(settings, field) = <<>> THEN before[field]
                 ELSE Held(settings, field)[1]

\* the log of a did_change_configuration handler when the step that is taken
\* has been taken
LogAfter(h) ==
  IF tasks[h].pc = "scan"
    THEN [tasks[h].log EXCEPT !.ran = Append(@, [uri |-> tasks[h].uri, config |-> config])]
  ELSE IF tasks[h].pc = "keys" THEN [tasks[h].log EXCEPT !.keys = DOMAIN files]
  ELSE tasks[h].log

\* C33: did_change_configuration updates each field of the configuration only
\* when the settings hold a value of its type under its key and leaves every
\* other field as it was; it then runs run_diagnostics exactly once for every
\* document in the files map, with the new configuration.
C33_ConfigurationThenEveryDocument ==
  [][\A h \in Handlers :
       /\ StepConfigure(h) => Updated(config', config, tasks[h].settings)
       /\ (tasks[h].kind = "did_change_configuration" /\ tasks'[h].pc = "free") =>
            LET log == LogAfter(h)
            IN /\ \A u \in log.keys :
                    Cardinality({i \in DOMAIN log.ran : log.ran[i].uri = u}) = 1
               /\ \A i \in DOMAIN log.ran :
                    /\ log.ran[i].uri \in log.keys
                    /\ Updated(log.ran[i].config, log.before, tasks[h].settings)]_vars

\* a handler whose settings hold a string for max_lines and a number for
\* max_columns has diagnosed one of two documents and is at the other
C33_Witness ==
  \E h \in Handlers :
    /\ tasks[h].kind = "did_change_configuration"
    /\ tasks[h].pc = "scan"
    /\ tasks[h].settings.max_lines = <<String("1")>>
    /\ tasks[h].settings.max_columns = <<Number(4)>>
    /\ Len(tasks[h].log.ran) = 1
    /\ tasks[h].log.keys = DocumentUris
    /\ tasks[h].log.before.max_columns = 90
    /\ config.max_columns = 4
    /\ config.max_lines = 128

-----------------------------------------------------------------------------
(* Claims about Union *)

\* the slices with the elements of a slice, in any order and repetition
Rearranged(slice) == {other \in Unions : Elems(other) = Elems(slice)}

\* C34: match_union(a, b) = match_union(b, a) = (a and b share a type),
\* match_type(u, t) = match_union(u, {t}), intersection(u, c) is non-empty exactly
\* when match_union(u, c) holds and contains only types of both; no result
\* depends on the order or the repetition of the elements.
C34_UnionIsSetTest ==
  pc = "answered" =>
    LET self == response[1].self
        types == response[1].types
        typ == response[1].typ
        result == response[1].result[1]
    IN CASE response[1].method = "match_union" ->
              /\ result = (Elems(self) \cap Elems(types) # {})
              /\ result = match_union(types, self)
              /\ \A a \in Rearranged(self), b \in Rearranged(types) :
                   match_union(a, b) = result
         [] response[1].method = "match_type" ->
              /\ result = match_union(self, <<typ>>)
              /\ \A a \in Rearranged(self) : match_type(a, typ) = result
         [] response[1].method = "intersection" ->
              /\ (result # <<>>) = match_union(self, types)
              /\ Elems(result) \subseteq Elems(self) \cap Elems(types)
              /\ \A a \in Rearranged(self), b \in Rearranged(types) :
                   Elems(intersection(a, b)) = Elems(result)

\* the Union Number, Register matched a slice whose last element is its first
C34_Witness ==
  /\ pc = "answered"
  /\ response[1].method = "match_union"
  /\ response[1].self = <<"Number", "Register">>
  /\ response[1].types = <<"Device", "Register">>
  /\ response[1].result = <<TRUE>>

-----------------------------------------------------------------------------
(* Claims about error nodes and the order of the passes *)

\* the place of the pass that raises a diagnostic in the order duplicate
\* definitions, syntax errors, invalid instructions, type check, overlength,
\* absolute jump, batch mode, reagent mode
PassOf(diagnostic) ==
  CASE diagnostic.message.text = "Duplicate definition" -> 1
    [] diagnostic.message.text = "Syntax error" -> 2
    [] diagnostic.message.text = "Invalid instruction" -> 3
    [] diagnostic.message.text \in {"Instruction past column {}", "Comment past column {}",
                                    "Instruction past line {}", "Comment past line {}"} -> 5
    [] diagnostic.code = <<LINT_ABSOLUTE_JUMP>> -> 6
    [] diagnostic.code = <<LINT_NUMBER_BATCH_MODE>> -> 7
    [] diagnostic.code = <<LINT_NUMBER_REAGENT_MODE>> -> 8
    [] OTHER -> 4

\* C35: each error node of the tree yields one `Syntax error` diagnostic at its
\* range; the other passes still run on the tree, so that every other line has
\* the diagnostics it has when the error node is replaced by a well-formed
\* instruction; the published list holds the outputs of the passes in the order
\* duplicate definitions, syntax errors, invalid instructions, type check,
\* overlength, absolute jump, batch mode, reagent mode.
C35_ErrorNodesAndPassOrder ==
  pc = "published" =>
    LET list == published[uri[1]]
    IN /\ \A i \in DOMAIN Tree :
            Cardinality({k \in DOMAIN list :
                           /\ list[k].message.text = "Syntax error"
                           /\ list[k].range = NodeRange(i - 1, Tree[i])})
              = (IF Tree[i].kind = "ERROR" THEN 1 ELSE 0)
       /\ \A k \in DOMAIN list :
            list[k].message.text = "Syntax error" =>
              /\ list[k].severity = "ERROR"
              /\ list[k].range.start.line + 1 \in DOMAIN Tree
              /\ Tree[list[k].range.start.line + 1].kind = "ERROR"
       /\ \A i \in DOMAIN Tree :
            Tree[i].kind = "ERROR" =>
              \A j \in DOMAIN Tree \ {i} :
                SameList(OnRow(list, j - 1),
                         OnRow(PublishedFor([Tree EXCEPT ![i] = Instruction("yield", <<>>)]),
                               j - 1))
       /\ \A k \in DOMAIN list : \A l \in DOMAIN list :
            k < l => PassOf(list[k]) <= PassOf(list[l])

\* an error node, an invalid instruction and an absolute jump under a limit of
\* one line: every one of them has its diagnostic in the published list
C35_Witness ==
  /\ pc = "published"
  /\ config.max_lines = 1
  /\ Tree = <<Error(<<"x">>), InvalidInstruction(<<>>),
              Instruction("j", <<Operand("number", "5")>>)>>
  /\ {PassOf(published[uri[1]][k]) : k \in DOMAIN published[uri[1]]} = {2, 3, 5, 6}

-----------------------------------------------------------------------------
(* Claims about mnemonics without a signature *)

\* C36: an instruction whose mnemonic has no signature in the catalog and is not
\* define, alias or label has exactly one `Unsupported instruction` diagnostic,
\* of information severity, at the range of the mnemonic, and no diagnostic of
\* the type check of an operand or of the number of its operands.
C36_UnsupportedInstruction ==
  pc = "linted" =>
    \A i \in DOMAIN Tree :
      (/\ Tree[i].kind = "instruction"
       /\ Tree[i].operation # <<>>
       /\ Tree[i].operation[1] \notin DOMAIN INSTRUCTIONS \cup {"define", "alias", "label"}) =>
        /\ Cardinality(DiagsOnRow("Unsupported instruction", i - 1)) = 1
        /\ \A k \in DiagsOnRow("Unsupported instruction", i - 1) :
             /\ diagnostics[k].severity = "INFORMATION"
             /\ diagnostics[k].range = OperationRange(i - 1)
        /\ DiagsOnRow(MismatchText, i - 1) = {}
        /\ DiagsOnRow("Unknown identifier", i - 1) = {}
        /\ DiagsOnRow(SuperfluousText, i - 1) = {}
        /\ DiagsOnRow("Invalid number of arguments", i - 1) = {}

\* `bdnvl b d0` with an identifier that is not defined has been analysed
C36_Witness ==
  /\ pc = "linted"
  /\ Tree = <<Instruction("bdnvl", <<Operand("identifier", "a"),
                                     Operand("device_spec", "d0")>>)>>
  /\ Cardinality(DiagsOnRow("Unsupported instruction", 0)) = 1
====
